---- MODULE Spec2Model ----
(***************************************************************************)
(* Paper-trading ledger of forex_2026: portfolio.execute_trade and         *)
(* database.execute_trade_atomic as coroutines of one asyncio event loop,  *)
(* over an SQLite store (committed state + the writer's open transaction)  *)
(* and the price cache of market.fetch_prices.                             *)
(*                                                                         *)
(* Numbers: the program computes in binary floating point (and Decimal for *)
(* the quotient amount/price).  The model computes the same expressions in *)
(* exact rational arithmetic, a number being a record [n, d] in lowest     *)
(* terms; rounding, overflow and underflow of the float type are outside   *)
(* the model.                                                              *)
(***************************************************************************)
EXTENDS Integers, Sequences, FiniteSets, TLC

\* ------------------------------------------------------------------ bounds
NumTasks == 2
MaxCalls == 2

\* ------------------------------------------------------- program constants
InitialCash == 10000
DustDen == 100000000

\* ------------------------------------------------------ rational arithmetic
Abs(i) == IF i < 0 THEN -i ELSE i

Gcd[a \in Nat, b \in Nat] == IF b = 0 THEN a ELSE Gcd[b, a % b]

Norm(n, d) ==
    LET g == Gcd[Abs(n), d]
    IN  IF n = 0 THEN [n |-> 0, d |-> 1] ELSE [n |-> n \div g, d |-> d \div g]

R(i) == [n |-> i, d |-> 1]
Frac(n, d) == Norm(n, d)
Zero == R(0)

RAdd(a, b) ==
    LET g == Gcd[a.d, b.d]
    IN  Norm(a.n * (b.d \div g) + b.n * (a.d \div g), (a.d \div g) * b.d)

RNeg(a) == [n |-> -a.n, d |-> a.d]
RSub(a, b) == RAdd(a, RNeg(b))

RMul(a, b) ==
    LET g1 == Gcd[Abs(a.n), b.d]
        g2 == Gcd[Abs(b.n), a.d]
    IN  Norm((a.n \div g1) * (b.n \div g2), (a.d \div g2) * (b.d \div g1))

\* a / b for b > 0 (every division of the program is guarded by "> 0")
RDiv(a, b) == RMul(a, [n |-> b.d, d |-> b.n])

\* an/ad < bn/bd (ad, bd > 0), by integer parts and then the reciprocals of
\* the fractional parts, so that no product is formed
Less[an \in Int, ad \in Nat, bn \in Int, bd \in Nat] ==
    LET qa == an \div ad
        qb == bn \div bd
        ra == an % ad
        rb == bn % bd
    IN  IF qa # qb THEN qa < qb
        ELSE IF rb = 0 THEN FALSE
        ELSE IF ra = 0 THEN TRUE
        ELSE Less[bd, rb, ad, ra]

RLt(a, b) == Less[a.n, a.d, b.n, b.d]

RLe(a, b) == ~RLt(b, a)
RPos(a) == a.n > 0

\* 0.00000001, the literal of "new_amount < 0.00000001"
Dust == [n |-> 1, d |-> DustDen]

\* ----------------------------------------------------------------- inputs
Tasks == 1 .. NumTasks
NoTask == 0

Coins == {"bitcoin", "ethereum"}

\* "price_usd" of a coin in a price mapping; NoPrice: the coin is not in it
NoPrice == -1

\* Responses of the price feed (market.fetch_prices builds the mapping from
\* them): two quotes, and one with bitcoin's "usd" field absent (read as 0)
\* and ethereum absent.
PriceMaps ==
    { [bitcoin |-> 50000, ethereum |-> 50000],
      [bitcoin |-> 60000, ethereum |-> 50000],
      [bitcoin |-> 0, ethereum |-> NoPrice] }

EmptyMap == [bitcoin |-> NoPrice, ethereum |-> NoPrice]

\* At 50000 USD a coin, 0.0004 USD buys 8e-9 coins (below 1e-8) and
\* 0.0006 USD buys 1.2e-8 coins
TinyUsd == Frac(1, 2500)
SmallUsd == Frac(3, 5000)

\* The orders given to execute_trade(coin_id, side, amount_usd)
Orders ==
    { [coin |-> "bitcoin", side |-> "buy", amount |-> R(1000)],
      [coin |-> "bitcoin", side |-> "buy", amount |-> R(10000)],
      [coin |-> "bitcoin", side |-> "sell", amount |-> R(1000)],
      [coin |-> "bitcoin", side |-> "sell", amount |-> R(1200)],
      [coin |-> "ethereum", side |-> "buy", amount |-> SmallUsd],
      [coin |-> "ethereum", side |-> "buy", amount |-> TinyUsd],
      [coin |-> "ethereum", side |-> "sell", amount |-> TinyUsd],
      [coin |-> "bitcoin", side |-> "hold", amount |-> R(1000)],
      [coin |-> "bitcoin", side |-> "buy", amount |-> Zero] }

NoOrder == [coin |-> "", side |-> "", amount |-> Zero]

\* ------------------------------------------------------------------ state
\* A row of table portfolio (coin is the key); NoRow: the coin has no row
NoRow == [present |-> FALSE, amount |-> Zero, avg_entry_price |-> Zero, total_cost |-> Zero]

Row(a, p, c) == [present |-> TRUE, amount |-> a, avg_entry_price |-> p, total_cost |-> c]

\* The locals of one execute_trade call that live across an await
NoLoc ==
    [ qty |-> Zero, price |-> Zero, result |-> "none", cash |-> Zero,
      newrow |-> NoRow, pre_cash |-> Zero, pre_row |-> NoRow,
      s_cash |-> Zero, s_pos |-> [c \in Coins |-> NoRow], s_trades |-> << >>,
      total_value |-> Zero, failed_at |-> "none" ]

NoTx == [open |-> FALSE, cash |-> Zero, portfolio |-> [c \in Coins |-> NoRow], trades |-> << >>]

VARIABLES
    pc,            \* task -> the await the coroutine is suspended at
    req,           \* task -> the order of its current call
    loc,           \* task -> locals of the call
    res,           \* task -> what its last call returned
    loopBlocked,   \* task that blocks the event-loop thread in Lock.acquire()
    portfolioLock, \* holder of portfolio._portfolio_lock (threading.Lock)
    tradeLock,     \* holder of database._trade_lock (asyncio.Lock)
    tradeWaiters,  \* FIFO of the coroutines waiting for _trade_lock
    db,            \* the committed content of the SQLite store
    tx,            \* the uncommitted transaction of the connection that writes
    dbWriter,      \* task whose connection holds SQLite's write lock
    priceCache,    \* market._price_cache
    calls,         \* number of execute_trade calls made so far
    arrived,       \* task -> arrival number of its call among the overlapping calls
    nApplied,      \* number of execute_trade_atomic calls on this store that returned success
    touched        \* task -> a step of its current call changed the committed store

locks == <<loopBlocked, portfolioLock, tradeLock, tradeWaiters>>
store == <<db, tx, dbWriter>>
market == <<priceCache>>
vars == <<pc, req, loc, res, locks, store, market, calls, arrived, nApplied, touched>>

\* The store a start of the process finds: a new database, or the one an
\* earlier run left after buying 1000 USD of bitcoin at 50000 (init_db
\* creates what is missing and keeps what is there)
NewStore ==
    [ cash |-> R(InitialCash), portfolio |-> [c \in Coins |-> NoRow],
      trades |-> << >>, snapshots |-> << >> ]

KeptStore ==
    [ cash |-> R(9000),
      portfolio |-> [c \in Coins |-> IF c = "bitcoin"
                                      THEN Row(Frac(1, 50), R(50000), R(1000)) ELSE NoRow],
      trades |-> << [coin |-> "bitcoin", side |-> "buy", amount |-> Frac(1, 50),
                     price |-> R(50000), total_usd |-> R(1000)] >>,
      snapshots |-> << R(10000) >> ]

\* State after database.init_db and the lifespan's price pre-fetch (which
\* may have failed, leaving the cache empty)
Init ==
    /\ pc = [t \in Tasks |-> "idle"]
    /\ req = [t \in Tasks |-> NoOrder]
    /\ loc = [t \in Tasks |-> NoLoc]
    /\ res = [t \in Tasks |-> "none"]
    /\ loopBlocked = NoTask
    /\ portfolioLock = NoTask
    /\ tradeLock = NoTask
    /\ tradeWaiters = << >>
    /\ db \in {NewStore, KeptStore}
    /\ tx = NoTx
    /\ dbWriter = NoTask
    /\ priceCache \in {[bitcoin |-> 50000, ethereum |-> 50000], EmptyMap}
    /\ calls = 0
    /\ arrived = [t \in Tasks |-> 0]
    /\ nApplied = Len(db.trades)
    /\ touched = [t \in Tasks |-> FALSE]

\* ------------------------------------------------- position arithmetic
\* Buy branch: the row written for (coin, qty, amount_usd)
BuyRow(pos_row, qty, amount_usd) ==
    IF pos_row.present
    THEN LET new_amount == RAdd(pos_row.amount, qty)
             new_cost == RAdd(pos_row.total_cost, amount_usd)
             new_avg == IF RPos(new_amount) THEN RDiv(new_cost, new_amount) ELSE Zero
         IN  Row(new_amount, new_avg, new_cost)
    ELSE LET avg_price == IF RPos(qty) THEN RDiv(amount_usd, qty) ELSE Zero
         IN  Row(qty, avg_price, amount_usd)

\* Variant of SellRow whose dust rule zeroes the amount and forgets the cost
SellRowKeepsCost(pos_row, qty) ==
    LET cost_basis == RMul(qty, pos_row.avg_entry_price)
        amount0 == RSub(pos_row.amount, qty)
        cost0 == RSub(pos_row.total_cost, cost_basis)
        closed == RLt(amount0, Dust)
        new_amount == IF closed THEN Zero ELSE amount0
        new_avg == IF RPos(new_amount) THEN RDiv(cost0, new_amount) ELSE Zero
    IN  Row(new_amount, new_avg, cost0)

\* Sell branch: the row written after the holdings check has passed
SellRow(pos_row, qty) ==
    LET cost_basis == RMul(qty, pos_row.avg_entry_price)
        amount0 == RSub(pos_row.amount, qty)
        cost0 == RSub(pos_row.total_cost, cost_basis)
        closed == RLt(amount0, Dust)
        new_amount == IF closed THEN Zero ELSE amount0
        new_cost == IF closed THEN Zero ELSE cost0
        new_avg == IF RPos(new_amount) THEN RDiv(new_cost, new_amount) ELSE Zero
    IN  Row(new_amount, new_avg, new_cost)

\* Variants of the two checks below: a funds check that refuses a buy of the
\* whole balance, one that refuses nothing, and a holdings check that refuses
\* the sale of the whole position
InsufficientCashStrict(amount_usd, cash) == RLe(cash, amount_usd)

InsufficientCashNever(amount_usd, cash) == FALSE

InsufficientHoldingsStrict(pos_row, qty) == ~pos_row.present \/ RLe(pos_row.amount, qty)

\* The buy branch's funds check and the sell branch's holdings check
InsufficientCash(amount_usd, cash) == RLt(cash, amount_usd)

InsufficientHoldings(pos_row, qty) == ~pos_row.present \/ RLt(pos_row.amount, qty)

\* _round_usd for a value >= 0: quantize to 0.01, ROUND_HALF_UP
RoundUsd(x) ==
    LET y == RMul(x, R(100))
        cents == (y.n \div y.d) + (IF 2 * (y.n % y.d) >= y.d THEN 1 ELSE 0)
    IN  Frac(cents, 100)

\* -------------------------------------------------------------- the calls
NonEmpty(m) == \E c \in Coins : m[c] # NoPrice

\* fetch_prices answers from the cache: "_price_cache and (now -
\* _price_cache_ts) < PRICE_CACHE_TTL".  The clock is not part of the state:
\* fresh is the truth of the age test at the time of the call.
CacheHit(fresh) == NonEmpty(priceCache) /\ fresh

\* History: the step of task t changed the committed store
Touch(t) == touched' = [touched EXCEPT ![t] = @ \/ (db' # db)]

\* execute_trade returns r (or, for r = "raised", an exception leaves it);
\* the quantity and price it computed stay on record with the result
Return(t, r) ==
    /\ pc' = [pc EXCEPT ![t] = "done"]
    /\ res' = [res EXCEPT ![t] = r]
    /\ loc' = [loc EXCEPT ![t] = [NoLoc EXCEPT !.qty = loc[t].qty, !.price = loc[t].price]]

\* execute_trade returns r before it has computed a quantity
Reject(t, r) ==
    /\ pc' = [pc EXCEPT ![t] = "done"]
    /\ res' = [res EXCEPT ![t] = r]
    /\ loc' = [loc EXCEPT ![t] = NoLoc]

\* Variant of EnterRegion that takes neither lock
EnterRegionUnlocked(t, qty, price) ==
    /\ loc' = [loc EXCEPT ![t].qty = qty, ![t].price = price]
    /\ pc' = [pc EXCEPT ![t] = "get_db"]
    /\ res' = [res EXCEPT ![t] = "none"]
    /\ UNCHANGED locks

\* "with _portfolio_lock:" then "async with _trade_lock:" then the call of
\* get_db(), the first await that suspends.  threading.Lock.acquire() on a
\* held lock blocks the calling thread, which is the event-loop thread: no
\* coroutine runs until the lock is released.
EnterRegion(t, qty, price) ==
    /\ loc' = [loc EXCEPT ![t].qty = qty, ![t].price = price]
    /\ res' = [res EXCEPT ![t] = "none"]
    /\ IF portfolioLock # NoTask
       THEN /\ loopBlocked' = t
            /\ pc' = [pc EXCEPT ![t] = "portfolio_lock"]
            /\ UNCHANGED <<portfolioLock, tradeLock, tradeWaiters>>
       ELSE /\ portfolioLock' = t
            /\ UNCHANGED loopBlocked
            /\ IF tradeLock # NoTask
               THEN /\ tradeWaiters' = Append(tradeWaiters, t)
                    /\ pc' = [pc EXCEPT ![t] = "trade_lock"]
                    /\ UNCHANGED tradeLock
               ELSE /\ tradeLock' = t
                    /\ pc' = [pc EXCEPT ![t] = "get_db"]
                    /\ UNCHANGED tradeWaiters

\* execute_trade from the price mapping on: coin lookup, price check, the
\* quantity, the locks
AfterPrices(t, o, prices) ==
    IF prices[o.coin] = NoPrice
    THEN Reject(t, "no_price") /\ UNCHANGED locks
    ELSE IF prices[o.coin] <= 0
    THEN Reject(t, "bad_price") /\ UNCHANGED locks
    ELSE EnterRegion(t, RDiv(o.amount, R(prices[o.coin])), R(prices[o.coin]))

\* A call of execute_trade(o.coin, o.side, o.amount) runs to its first await
Call(t, o) ==
    /\ pc[t] \in {"idle", "done"}
    /\ \A u \in Tasks : u < t => pc[u] \notin {"idle", "done"}
    /\ loopBlocked = NoTask
    /\ calls < MaxCalls
    /\ calls' = calls + 1
    /\ arrived' = IF \A u \in Tasks : pc[u] \in {"idle", "done"}
                  THEN [u \in Tasks |-> IF u = t THEN 1 ELSE 0]
                  ELSE [arrived EXCEPT ![t] = 1 + Cardinality({u \in Tasks : arrived[u] > 0})]
    /\ req' = [req EXCEPT ![t] = o]
    /\ touched' = [touched EXCEPT ![t] = FALSE]
    /\ IF o.side \notin {"buy", "sell"}
       THEN Reject(t, "bad_side") /\ UNCHANGED locks
       ELSE IF ~RPos(o.amount)
       THEN Reject(t, "bad_amount") /\ UNCHANGED locks
       ELSE \E fresh \in BOOLEAN :
            IF CacheHit(fresh)
            THEN AfterPrices(t, o, priceCache)
            ELSE /\ pc' = [pc EXCEPT ![t] = "fetch"]
                 /\ res' = [res EXCEPT ![t] = "none"]
                 /\ loc' = [loc EXCEPT ![t] = NoLoc]
                 /\ UNCHANGED locks
    /\ UNCHANGED <<store, market, nApplied>>

\* The answer to fetch_prices' "await client.get(url)" arrives
FetchDone(t) ==
    /\ pc[t] = "fetch"
    /\ loopBlocked = NoTask
    /\ \/ \E m \in PriceMaps :
            /\ priceCache' = m
            /\ AfterPrices(t, req[t], m)
       \/ /\ UNCHANGED market
          /\ IF NonEmpty(priceCache)
             THEN AfterPrices(t, req[t], priceCache)
             ELSE Return(t, "raised") /\ UNCHANGED locks
       \/ /\ UNCHANGED market
          /\ Return(t, "raised") /\ UNCHANGED locks
    /\ UNCHANGED <<req, store, calls, arrived, nApplied, touched>>

\* ------------------------------------------------ execute_trade_atomic
\* The awaits between "async with _trade_lock" and the end of "finally"
RegionPcs ==
    { "get_db", "begin", "b_sel_cash", "b_upd_cash", "b_sel_pos", "b_upd_pos",
      "s_sel_pos", "s_upd_pos", "s_sel_cash", "s_upd_cash", "ins_trade",
      "commit", "rollback", "rollback_exc", "close" }

\* The awaits inside "try:", where an exception reaches "except Exception"
TryPcs == RegionPcs \ {"get_db", "rollback_exc", "close"}

Frame(t) == UNCHANGED <<req, res, locks, market, calls, arrived, nApplied>> /\ Touch(t)

Goto(t, label) == pc' = [pc EXCEPT ![t] = label]

\* get_db() has returned; "BEGIN EXCLUSIVE" is sent
GetDb(t) ==
    /\ pc[t] = "get_db"
    /\ loopBlocked = NoTask
    /\ Goto(t, "begin")
    /\ UNCHANGED <<loc, store>>
    /\ Frame(t)

\* BEGIN EXCLUSIVE is granted when no other connection writes; the first
\* SELECT of the branch is sent
Begin(t) ==
    /\ pc[t] = "begin"
    /\ loopBlocked = NoTask
    /\ dbWriter = NoTask
    /\ dbWriter' = t
    /\ tx' = [open |-> TRUE, cash |-> db.cash, portfolio |-> db.portfolio, trades |-> db.trades]
    /\ loc' = [loc EXCEPT ![t].pre_cash = db.cash, ![t].pre_row = db.portfolio[req[t].coin]]
    /\ Goto(t, IF req[t].side = "buy" THEN "b_sel_cash" ELSE "s_sel_pos")
    /\ UNCHANGED db
    /\ Frame(t)

\* buy: the cash row is read and checked
BuySelectCash(t) ==
    /\ pc[t] = "b_sel_cash"
    /\ loopBlocked = NoTask
    /\ IF InsufficientCash(req[t].amount, tx.cash)
       THEN /\ loc' = [loc EXCEPT ![t].cash = tx.cash, ![t].result = "insufficient_cash"]
            /\ Goto(t, "rollback")
       ELSE /\ loc' = [loc EXCEPT ![t].cash = tx.cash]
            /\ Goto(t, "b_upd_cash")
    /\ UNCHANGED store
    /\ Frame(t)

\* Variant of WriteCash on a connection in autocommit mode
WriteCashCommitted(value) ==
    /\ tx' = [tx EXCEPT !.cash = value]
    /\ db' = [db EXCEPT !.cash = value]

\* A statement of the open transaction writes the cash row
WriteCash(value) ==
    /\ tx' = [tx EXCEPT !.cash = value]
    /\ UNCHANGED db

\* buy: cash - amount_usd is written
BuyUpdateCash(t) ==
    /\ pc[t] = "b_upd_cash"
    /\ loopBlocked = NoTask
    /\ WriteCash(RSub(loc[t].cash, req[t].amount))
    /\ Goto(t, "b_sel_pos")
    /\ UNCHANGED <<loc, dbWriter>>
    /\ Frame(t)

\* buy: the position row is read and the new row computed
BuySelectPos(t) ==
    /\ pc[t] = "b_sel_pos"
    /\ loopBlocked = NoTask
    /\ loc' = [loc EXCEPT ![t].newrow = BuyRow(tx.portfolio[req[t].coin], loc[t].qty, req[t].amount)]
    /\ Goto(t, "b_upd_pos")
    /\ UNCHANGED store
    /\ Frame(t)

\* Variant of BuyUpdatePos whose UPDATE has no WHERE clause: every stored row
\* is overwritten
BuyUpdatePosAll(t) ==
    /\ pc[t] = "b_upd_pos"
    /\ loopBlocked = NoTask
    /\ tx' = [tx EXCEPT !.portfolio =
                 [c \in Coins |-> IF c = req[t].coin \/ tx.portfolio[c].present
                                  THEN loc[t].newrow ELSE tx.portfolio[c]]]
    /\ Goto(t, "ins_trade")
    /\ UNCHANGED <<loc, db, dbWriter>>
    /\ Frame(t)

\* buy: UPDATE / INSERT of the position row
BuyUpdatePos(t) ==
    /\ pc[t] = "b_upd_pos"
    /\ loopBlocked = NoTask
    /\ tx' = [tx EXCEPT !.portfolio[req[t].coin] = loc[t].newrow]
    /\ Goto(t, "ins_trade")
    /\ UNCHANGED <<loc, db, dbWriter>>
    /\ Frame(t)

\* sell: the position row is read and checked, the new row computed
SellSelectPos(t) ==
    /\ pc[t] = "s_sel_pos"
    /\ loopBlocked = NoTask
    /\ IF InsufficientHoldings(tx.portfolio[req[t].coin], loc[t].qty)
       THEN /\ loc' = [loc EXCEPT ![t].result = "insufficient_holdings"]
            /\ Goto(t, "rollback")
       ELSE /\ loc' = [loc EXCEPT ![t].newrow = SellRow(tx.portfolio[req[t].coin], loc[t].qty)]
            /\ Goto(t, "s_upd_pos")
    /\ UNCHANGED store
    /\ Frame(t)

\* sell: UPDATE of the position row
SellUpdatePos(t) ==
    /\ pc[t] = "s_upd_pos"
    /\ loopBlocked = NoTask
    /\ tx' = [tx EXCEPT !.portfolio[req[t].coin] = loc[t].newrow]
    /\ Goto(t, "s_sel_cash")
    /\ UNCHANGED <<loc, db, dbWriter>>
    /\ Frame(t)

\* sell: the cash row is read
SellSelectCash(t) ==
    /\ pc[t] = "s_sel_cash"
    /\ loopBlocked = NoTask
    /\ loc' = [loc EXCEPT ![t].cash = tx.cash]
    /\ Goto(t, "s_upd_cash")
    /\ UNCHANGED store
    /\ Frame(t)

\* sell: cash + amount_usd is written
SellUpdateCash(t) ==
    /\ pc[t] = "s_upd_cash"
    /\ loopBlocked = NoTask
    /\ WriteCash(RAdd(loc[t].cash, req[t].amount))
    /\ Goto(t, "ins_trade")
    /\ UNCHANGED <<loc, dbWriter>>
    /\ Frame(t)

\* The Trade record of the order
TradeRecord(t) ==
    [ coin |-> req[t].coin, side |-> req[t].side, amount |-> loc[t].qty,
      price |-> loc[t].price, total_usd |-> req[t].amount ]

\* Variant of InsertTrade that rewrites the table instead of adding a row
InsertTradeReplaces(t) ==
    /\ pc[t] = "ins_trade"
    /\ loopBlocked = NoTask
    /\ tx' = [tx EXCEPT !.trades = << TradeRecord(t) >>]
    /\ Goto(t, "commit")
    /\ UNCHANGED <<loc, db, dbWriter>>
    /\ Frame(t)

\* INSERT INTO trades
InsertTrade(t) ==
    /\ pc[t] = "ins_trade"
    /\ loopBlocked = NoTask
    /\ tx' = [tx EXCEPT !.trades = Append(@, TradeRecord(t))]
    /\ Goto(t, "commit")
    /\ UNCHANGED <<loc, db, dbWriter>>
    /\ Frame(t)

\* db.commit(): the transaction's writes become the committed content
Commit(t) ==
    /\ pc[t] = "commit"
    /\ loopBlocked = NoTask
    /\ db' = [db EXCEPT !.cash = tx.cash, !.portfolio = tx.portfolio, !.trades = tx.trades]
    /\ tx' = NoTx
    /\ dbWriter' = NoTask
    /\ loc' = [loc EXCEPT ![t].result = "ok"]
    /\ Goto(t, "close")
    /\ Frame(t)

\* ROLLBACK after a failed check
Rollback(t) ==
    /\ pc[t] = "rollback"
    /\ loopBlocked = NoTask
    /\ tx' = NoTx
    /\ dbWriter' = NoTask
    /\ Goto(t, "close")
    /\ UNCHANGED <<loc, db>>
    /\ Frame(t)

\* An awaited statement inside "try:" raises (sqlite3.OperationalError, a
\* closed connection, ...): "except Exception" sends ROLLBACK
Fail(t) ==
    /\ pc[t] \in TryPcs
    /\ loopBlocked = NoTask
    /\ loc' = [loc EXCEPT ![t].result = "tx_failed", ![t].failed_at = pc[t]]
    /\ Goto(t, "rollback_exc")
    /\ UNCHANGED store
    /\ Frame(t)

\* Variant of RollbackExc whose handler commits what the transaction wrote
RollbackExcCommits(t) ==
    /\ pc[t] = "rollback_exc"
    /\ loopBlocked = NoTask
    /\ IF dbWriter = t
       THEN /\ db' = [db EXCEPT !.cash = tx.cash, !.portfolio = tx.portfolio,
                                !.trades = tx.trades]
            /\ tx' = NoTx
            /\ dbWriter' = NoTask
       ELSE UNCHANGED <<db, tx, dbWriter>>
    /\ Goto(t, "close")
    /\ UNCHANGED loc
    /\ Frame(t)

\* The handler's ROLLBACK (an error of it is swallowed); "finally" closes
RollbackExc(t) ==
    /\ pc[t] = "rollback_exc"
    /\ loopBlocked = NoTask
    /\ IF dbWriter = t
       THEN tx' = NoTx /\ dbWriter' = NoTask
       ELSE UNCHANGED <<tx, dbWriter>>
    /\ Goto(t, "close")
    /\ UNCHANGED <<loc, db>>
    /\ Frame(t)

\* --------------------------------------- get_portfolio_summary, snapshot
\* get_positions: the rows with amount > 0.00000001
OpenPositions(portfolio) ==
    [c \in Coins |-> IF portfolio[c].present /\ RLt(Dust, portfolio[c].amount)
                     THEN portfolio[c] ELSE NoRow]

\* current_price of a holding: from the mapping fetch_prices returned, else
\* from get_price_for_coin (the cache), else 0
CurrentPrice(prices, cache, c) ==
    IF prices[c] # NoPrice THEN R(prices[c])
    ELSE IF cache[c] # NoPrice /\ cache[c] # 0 THEN R(cache[c])
    ELSE Zero

RECURSIVE HoldingsValue(_, _, _, _)
HoldingsValue(S, positions, prices, cache) ==
    IF S = {} THEN Zero
    ELSE LET c == CHOOSE x \in S : TRUE
         IN  RAdd(RMul(positions[c].amount, CurrentPrice(prices, cache, c)),
                  HoldingsValue(S \ {c}, positions, prices, cache))

\* new_portfolio["total_value"]
TotalValue(cash, positions, prices, cache) ==
    RoundUsd(RAdd(cash, HoldingsValue(Coins, positions, prices, cache)))

\* Variant of the test below that lets a failed result through to the
\* summary and the snapshot
SucceededAlways(t) == TRUE

\* execute_trade: "if not result.get("success"): return result"
Succeeded(t) == loc[t].result = "ok"

\* db.close() has returned: both locks are released (the asyncio lock goes
\* to its first waiter) and execute_trade looks at the result
Close(t) ==
    /\ pc[t] = "close"
    /\ loopBlocked = NoTask
    /\ portfolioLock' = IF portfolioLock = t THEN NoTask ELSE portfolioLock
    /\ UNCHANGED loopBlocked
    /\ IF tradeLock # t
       THEN UNCHANGED <<tradeLock, tradeWaiters>>
       ELSE IF tradeWaiters = << >>
       THEN tradeLock' = NoTask /\ UNCHANGED tradeWaiters
       ELSE tradeLock' = Head(tradeWaiters) /\ tradeWaiters' = Tail(tradeWaiters)
    /\ LET woken == IF tradeLock = t /\ tradeWaiters # << >> THEN {Head(tradeWaiters)} ELSE {}
           wake(f) == [u \in Tasks |-> IF u \in woken THEN "get_db" ELSE f[u]]
       IN  IF Succeeded(t)
           THEN /\ pc' = wake([pc EXCEPT ![t] = "sum_cash"])
                /\ nApplied' = nApplied + (IF loc[t].result = "ok" THEN 1 ELSE 0)
                /\ loc' = [loc EXCEPT ![t] = [NoLoc EXCEPT !.result = loc[t].result,
                                                            !.qty = loc[t].qty,
                                                            !.price = loc[t].price]]
                /\ UNCHANGED res
           ELSE /\ pc' = wake([pc EXCEPT ![t] = "done"])
                /\ res' = [res EXCEPT ![t] = loc[t].result]
                /\ loc' = [loc EXCEPT ![t] = [NoLoc EXCEPT !.qty = loc[t].qty,
                                                            !.price = loc[t].price,
                                                            !.failed_at = loc[t].failed_at]]
                /\ UNCHANGED nApplied
    /\ UNCHANGED <<req, store, market, calls, arrived>>
    /\ Touch(t)

PostFrame(t) == UNCHANGED <<req, locks, calls, arrived, nApplied>> /\ Touch(t)

\* get_cash_balance()
SummaryCash(t) ==
    /\ pc[t] = "sum_cash"
    /\ loopBlocked = NoTask
    /\ loc' = [loc EXCEPT ![t].s_cash = db.cash]
    /\ Goto(t, "sum_pos")
    /\ UNCHANGED <<res, store, market>>
    /\ PostFrame(t)

\* get_positions(), then fetch_prices(): from the cache, or a request
SummaryPositions(t) ==
    /\ pc[t] = "sum_pos"
    /\ loopBlocked = NoTask
    /\ \E fresh \in BOOLEAN :
       IF CacheHit(fresh)
       THEN /\ loc' = [loc EXCEPT ![t].s_pos = OpenPositions(db.portfolio),
                                  ![t].total_value =
                                      TotalValue(loc[t].s_cash, OpenPositions(db.portfolio),
                                                 priceCache, priceCache)]
            /\ Goto(t, "sum_trades")
       ELSE /\ loc' = [loc EXCEPT ![t].s_pos = OpenPositions(db.portfolio)]
            /\ Goto(t, "sum_fetch")
    /\ UNCHANGED <<res, store, market>>
    /\ PostFrame(t)

\* The answer to the summary's price request arrives
SummaryFetchDone(t) ==
    /\ pc[t] = "sum_fetch"
    /\ loopBlocked = NoTask
    /\ \/ \E m \in PriceMaps :
            /\ priceCache' = m
            /\ loc' = [loc EXCEPT ![t].total_value = TotalValue(loc[t].s_cash, loc[t].s_pos, m, m)]
            /\ Goto(t, "sum_trades")
            /\ UNCHANGED res
       \/ /\ UNCHANGED market
          /\ IF NonEmpty(priceCache)
             THEN /\ loc' = [loc EXCEPT ![t].total_value =
                                TotalValue(loc[t].s_cash, loc[t].s_pos, priceCache, priceCache)]
                  /\ Goto(t, "sum_trades")
                  /\ UNCHANGED res
             ELSE Return(t, "raised")
       \/ /\ UNCHANGED market
          /\ Return(t, "raised")
    /\ UNCHANGED store
    /\ PostFrame(t)

\* get_trade_history(limit=100)
SummaryTrades(t) ==
    /\ pc[t] = "sum_trades"
    /\ loopBlocked = NoTask
    /\ loc' = [loc EXCEPT ![t].s_trades = db.trades]
    /\ Goto(t, "sum_snaps")
    /\ UNCHANGED <<res, store, market>>
    /\ PostFrame(t)

\* get_snapshots(limit=500); the summary is returned and record_snapshot
\* sends its INSERT
SummarySnapshots(t) ==
    /\ pc[t] = "sum_snaps"
    /\ loopBlocked = NoTask
    /\ Goto(t, "snap_insert")
    /\ UNCHANGED <<loc, res, store, market>>
    /\ PostFrame(t)

\* record_snapshot: the INSERT takes SQLite's write lock
SnapshotInsert(t) ==
    /\ pc[t] = "snap_insert"
    /\ loopBlocked = NoTask
    /\ dbWriter = NoTask
    /\ dbWriter' = t
    /\ Goto(t, "snap_commit")
    /\ UNCHANGED <<loc, res, db, tx, market>>
    /\ PostFrame(t)

\* record_snapshot: commit; execute_trade returns the confirmation
SnapshotCommit(t) ==
    /\ pc[t] = "snap_commit"
    /\ loopBlocked = NoTask
    /\ db' = [db EXCEPT !.snapshots = Append(@, loc[t].total_value)]
    /\ dbWriter' = NoTask
    /\ Return(t, loc[t].result)
    /\ UNCHANGED <<tx, market>>
    /\ PostFrame(t)

\* ---------------------------------------------------------- specification
\* The steps of a call after its first await
Resume(t) ==
    \/ FetchDone(t)
    \/ GetDb(t)
    \/ Begin(t)
    \/ BuySelectCash(t)
    \/ BuyUpdateCash(t)
    \/ BuySelectPos(t)
    \/ BuyUpdatePos(t)
    \/ SellSelectPos(t)
    \/ SellUpdatePos(t)
    \/ SellSelectCash(t)
    \/ SellUpdateCash(t)
    \/ InsertTrade(t)
    \/ Commit(t)
    \/ Rollback(t)
    \/ RollbackExc(t)
    \/ Close(t)
    \/ SummaryCash(t)
    \/ SummaryPositions(t)
    \/ SummaryFetchDone(t)
    \/ SummaryTrades(t)
    \/ SummarySnapshots(t)
    \/ SnapshotInsert(t)
    \/ SnapshotCommit(t)

Next ==
    \/ \E t \in Tasks, o \in Orders : Call(t, o)
    \/ \E t \in Tasks : Fail(t)
    \/ \E t \in Tasks : Resume(t)

\* Requests arrive while others are in progress
Spec == Init /\ [][Next]_vars

\* The event loop resumes every coroutine whose awaited operation has
\* completed, and every awaited operation (a statement on the store, an HTTP
\* request with its 15 s timeout) completes
FairSpec == Spec /\ \A t \in Tasks : WF_vars(Resume(t))

\* A request arrives only when no other call is in progress
Quiet == \A u \in Tasks : pc[u] \in {"idle", "done"}

SerialCall(t, o) == Quiet /\ Call(t, o)

SerialNext ==
    \/ \E t \in Tasks, o \in Orders : SerialCall(t, o)
    \/ \E t \in Tasks : Fail(t)
    \/ \E t \in Tasks : Resume(t)

SerialSpec == Init /\ [][SerialNext]_vars

\* ------------------------------------------------------- init_db, restart
\* portfolio_meta has no row for cash_balance
NoCash == [n |-> 0, d |-> 0]

\* The store before init_db has ever run: no tables, no rows
EmptyFile ==
    [ cash |-> NoCash, portfolio |-> [c \in Coins |-> NoRow],
      trades |-> << >>, snapshots |-> << >> ]

\* Variant of InitDb that writes the opening balance whatever is stored
InitDbResets(s) == [s EXCEPT !.cash = R(InitialCash)]

\* init_db: the tables are created if they do not exist, and the cash row
\* is inserted if there is none
InitDb(s) == IF s.cash = NoCash THEN [s EXCEPT !.cash = R(InitialCash)] ELSE s

\* get_cash_balance on store s
CashBalance(s) == IF s.cash = NoCash THEN R(InitialCash) ELSE s.cash

\* The process is stopped with no call in progress and started again: the
\* lifespan runs init_db on the store it finds and pre-fetches the prices
Restart ==
    /\ Quiet
    /\ \E t \in Tasks : pc[t] = "done"
    /\ db' = InitDb(db)
    /\ pc' = [t \in Tasks |-> "idle"]
    /\ req' = [t \in Tasks |-> NoOrder]
    /\ loc' = [t \in Tasks |-> NoLoc]
    /\ res' = [t \in Tasks |-> "none"]
    /\ arrived' = [t \in Tasks |-> 0]
    /\ touched' = [t \in Tasks |-> FALSE]
    /\ priceCache' \in {[bitcoin |-> 50000, ethereum |-> 50000], EmptyMap}
    /\ UNCHANGED <<locks, tx, dbWriter, calls, nApplied>>

RestartInit ==
    /\ Init
    /\ db \in {InitDb(EmptyFile), InitDb(KeptStore)}

RestartNext ==
    \/ \E t \in Tasks, o \in Orders : SerialCall(t, o)
    \/ \E t \in Tasks : Fail(t)
    \/ \E t \in Tasks : Resume(t)
    \/ Restart

\* Calls one at a time, and restarts of the process between them
RestartSpec == RestartInit /\ [][RestartNext]_vars

\* ------------------------------------------------------------ properties
InProgress(t) == pc[t] \notin {"idle", "done"}

\* The committed row of the coin the call trades
TradedRow(t) == db.portfolio[req[t].coin]

\* The call has left the transaction with a result of its own checks
Decided(t, side) ==
    pc[t] = "close" /\ req[t].side = side /\ loc[t].result # "tx_failed"

\* C1: at most one trade is inside the critical region of
\* execute_trade_atomic at any time; the trade inside holds both locks, and
\* the exclusive transaction is open only for a trade inside the region, so
\* the exclusion lasts until its commit or rollback has completed.
C1_MutualExclusion ==
    /\ Cardinality({t \in Tasks : pc[t] \in RegionPcs}) <= 1
    /\ \A t \in Tasks : pc[t] \in RegionPcs => portfolioLock = t /\ tradeLock = t
    /\ tx.open => \E t \in Tasks : dbWriter = t /\ pc[t] \in RegionPcs

\* A trade has its transaction open while another call is in progress
C1_Witness ==
    \E t, u \in Tasks :
        t # u /\ pc[t] \in RegionPcs /\ tx.open /\ dbWriter = t /\ InProgress(u)

\* The sells that fit, taken in arrival order, from holdings left
RECURSIVE Fitting(_, _)
Fitting(waiting, left) ==
    IF waiting = {} THEN {}
    ELSE LET t == CHOOSE u \in waiting : \A v \in waiting : arrived[u] <= arrived[v]
         IN  IF RLe(loc[t].qty, left)
             THEN {t} \cup Fitting(waiting \ {t}, RSub(left, loc[t].qty))
             ELSE Fitting(waiting \ {t}, left)

RECURSIVE TotalQty(_)
TotalQty(S) ==
    IF S = {} THEN Zero
    ELSE LET t == CHOOSE u \in S : TRUE IN RAdd(loc[t].qty, TotalQty(S \ {t}))

\* Every task has a sell of coin c in progress and none is applied yet
SellsInProgress(c, held) ==
    /\ db.portfolio[c].present /\ db.portfolio[c].amount = held
    /\ \A t \in Tasks :
          InProgress(t) /\ req[t].coin = c /\ req[t].side = "sell" /\ ~touched[t]

\* All of them have returned; if each got a price and ran its transaction to
\* the end and together they asked for more than was held, the ones that fit
\* in arrival order succeeded and the others were refused for holdings
SellsSettled(held) ==
    /\ \A t \in Tasks : pc[t] = "done"
    /\ ( /\ \A t \in Tasks : RPos(loc[t].qty) /\ res[t] # "tx_failed"
         /\ RLt(held, TotalQty(Tasks)) )
       => /\ \A t \in Tasks :
                res[t] = IF t \in Fitting(Tasks, held) THEN "ok" ELSE "insufficient_holdings"
          /\ RLe(TotalQty({t \in Tasks : res[t] = "ok"}), held)

\* C2: when sell requests for the same coin are in progress together and
\* ask for more than is held, exactly those that fit in arrival order succeed
\* and every other one fails with the insufficient-holdings error; the
\* successful sells together never exceed the amount held before them.
C2_ConcurrentSells ==
    \A held \in {KeptStore.portfolio["bitcoin"].amount} :
        [](SellsInProgress("bitcoin", held) => <>SellsSettled(held))

\* C3: with the event loop resuming every coroutine that can run, every
\* execute_trade call eventually returns, also when several calls are in
\* progress together; none waits forever for a lock.
C3_EveryCallReturns == \A t \in Tasks : InProgress(t) ~> (pc[t] = "done")

\* C4: the cash change, the position change and the Trade record of a trade
\* become visible in one step, the commit of its transaction: the committed
\* cash, positions and trade log change only there, and all three together.
C4_SingleCommit ==
    [][ (db'.cash # db.cash \/ db'.portfolio # db.portfolio \/ db'.trades # db.trades)
        => \E t \in Tasks :
              /\ pc[t] = "commit" /\ pc'[t] = "close"
              /\ db'.trades = Append(db.trades, TradeRecord(t))
              /\ db'.cash = IF req[t].side = "buy" THEN RSub(db.cash, req[t].amount)
                                                   ELSE RAdd(db.cash, req[t].amount)
              /\ db'.portfolio[req[t].coin] # db.portfolio[req[t].coin]
              /\ \A c \in Coins \ {req[t].coin} : db'.portfolio[c] = db.portfolio[c] ]_vars

\* A sell has just been committed while another call is in progress
C4_Witness ==
    \E t, u \in Tasks :
        /\ t # u /\ InProgress(u)
        /\ pc[t] = "close" /\ req[t].side = "sell" /\ loc[t].result = "ok"
        /\ db.trades # << >> /\ db.trades[Len(db.trades)] = TradeRecord(t)

Failures ==
    { "bad_side", "bad_amount", "no_price", "bad_price",
      "insufficient_cash", "insufficient_holdings" }

\* C5: a call that returns a failure (invalid side, non-positive amount, no
\* price, non-positive price, insufficient cash, insufficient holdings) has
\* changed nothing of the committed cash, positions, trade log and snapshot
\* log in any of its steps.
C5_FailureChangesNothing ==
    \A t \in Tasks : pc[t] = "done" /\ res[t] \in Failures => ~touched[t]

\* A sell of more than the position holds has been refused
C5_Witness ==
    \E t \in Tasks :
        /\ pc[t] = "done" /\ res[t] = "insufficient_holdings"
        /\ TradedRow(t).present /\ RPos(TradedRow(t).amount)
        /\ RLt(TradedRow(t).amount, loc[t].qty)

\* C6: a buy of amount_usd at a positive price succeeds exactly when
\* amount_usd <= cash; after it cash is lower by amount_usd, the coin's amount
\* higher by quantity = amount_usd / price, its total_cost higher by
\* amount_usd, and avg_entry_price is the new total_cost over the new amount.
\* A refused buy is refused for insufficient cash.  From cash 10000 a buy of
\* 1000 at 50000 gives cash 9000 and the position 0.02, 50000, 1000.
C6_Buy ==
    \A t \in Tasks : Decided(t, "buy") =>
        LET amount_usd == req[t].amount
            qty == loc[t].qty
            cash0 == loc[t].pre_cash
            row0 == loc[t].pre_row
            row == TradedRow(t)
        IN  /\ RPos(loc[t].price) /\ RMul(qty, loc[t].price) = amount_usd
            /\ (loc[t].result = "ok") <=> RLe(amount_usd, cash0)
            /\ loc[t].result # "ok" => loc[t].result = "insufficient_cash"
            /\ loc[t].result = "ok" =>
                  /\ db.cash = RSub(cash0, amount_usd)
                  /\ row.present
                  /\ row.amount = RAdd(row0.amount, qty)
                  /\ row.total_cost = RAdd(row0.total_cost, amount_usd)
                  /\ RMul(row.avg_entry_price, row.amount) = row.total_cost
            /\ ( /\ loc[t].result = "ok" /\ cash0 = R(10000) /\ ~row0.present
                 /\ amount_usd = R(1000) /\ loc[t].price = R(50000) )
               => db.cash = R(9000) /\ row = Row(Frac(2, 100), R(50000), R(1000))

\* The buy of 1000 at 50000 from cash 10000 has been committed
C6_Witness ==
    \E t \in Tasks :
        /\ Decided(t, "buy") /\ loc[t].result = "ok"
        /\ loc[t].pre_cash = R(10000) /\ ~loc[t].pre_row.present
        /\ req[t].amount = R(1000) /\ loc[t].price = R(50000)

\* The cost left after qty is sold at the entry price
CostLeft(t) ==
    RSub(loc[t].pre_row.total_cost, RMul(loc[t].qty, loc[t].pre_row.avg_entry_price))

\* The row after a sell that leaves amount left: reduced, or closed when the
\* dust rule applies and left is below 1e-8
RowAfterSell(t, left, dust_rule) ==
    IF dust_rule /\ RLt(left, Dust)
    THEN TradedRow(t).amount = Zero /\ TradedRow(t).total_cost = Zero
    ELSE TradedRow(t).amount = left /\ TradedRow(t).total_cost = CostLeft(t)

\* The outcome of a sell, read with or without the dust rule
SellOutcome(t, dust_rule) ==
    LET amount_usd == req[t].amount
        qty == loc[t].qty
        row0 == loc[t].pre_row
    IN  /\ RPos(loc[t].price) /\ RMul(qty, loc[t].price) = amount_usd
        /\ (loc[t].result = "ok") <=> (row0.present /\ RLe(qty, row0.amount))
        /\ loc[t].result # "ok" => loc[t].result = "insufficient_holdings"
        /\ loc[t].result = "ok" =>
              /\ db.cash = RAdd(loc[t].pre_cash, amount_usd)
              /\ RowAfterSell(t, RSub(row0.amount, qty), dust_rule)
              /\ qty = row0.amount =>
                    TradedRow(t).amount = Zero /\ TradedRow(t).total_cost = Zero
        /\ ( /\ loc[t].result = "ok" /\ loc[t].pre_cash = R(9000)
             /\ row0 = Row(Frac(2, 100), R(50000), R(1000))
             /\ qty = Frac(2, 100) /\ loc[t].price = R(60000) )
           => db.cash = R(10200)

\* C7 as stated: a sell of quantity q succeeds exactly when the coin has a
\* position with amount >= q; after it the amount is lower by q, total_cost
\* lower by q * avg_entry_price and cash higher by amount_usd; selling the
\* whole position leaves amount 0 and total_cost 0 (0.02 bought at 50000 and
\* sold at 60000 raises cash from 9000 to 10200).
C7_SellAsStated ==
    \A t \in Tasks : Decided(t, "sell") => SellOutcome(t, FALSE)

\* C7, amended: as stated, except that a sell which leaves less than 1e-8 of
\* the coin closes the position: amount and total_cost are both set to 0.
C7_Sell ==
    \A t \in Tasks : Decided(t, "sell") => SellOutcome(t, TRUE)

\* A sell has left a remainder below 1e-8, and the position is closed
C7_Witness ==
    \E t \in Tasks :
        /\ Decided(t, "sell") /\ loc[t].result = "ok"
        /\ RLt(loc[t].qty, loc[t].pre_row.amount)
        /\ RLt(RSub(loc[t].pre_row.amount, loc[t].qty), Dust)
        /\ TradedRow(t).amount = Zero

\* Trades committed whose call has not yet counted its success
JustCommitted == {t \in Tasks : pc[t] = "close" /\ loc[t].result = "ok"}

\* C8: the trade log is append-only and counts the applied trades: the log
\* changes only by the commit of a trade, which appends one record holding
\* its coin, side, quantity, price and total and leaves the records before it
\* as they were; the number of records is the number of applied trades.
C8_AppendOnlyLog ==
    /\ [][ \/ db'.trades = db.trades
           \/ \E t \in Tasks :
                 /\ pc[t] = "commit" /\ loc'[t].result = "ok"
                 /\ db'.trades = Append(db.trades, TradeRecord(t)) ]_vars
    /\ [](Len(db.trades) = nApplied + Cardinality(JustCommitted))

\* Two trades have been applied, one call has failed, and the log holds two
\* records
C8_Witness ==
    /\ Len(db.trades) = 2 /\ nApplied = 2
    /\ db.trades[1].side = "buy" /\ db.trades[2].side = "sell"
    /\ \E t \in Tasks : pc[t] = "done" /\ res[t] \in Failures

\* C9: the cash balance is never negative, in the committed store and in
\* the open transaction, whatever the interleaving of the calls.
C9_CashNeverNegative ==
    /\ RLe(Zero, db.cash)
    /\ tx.open => RLe(Zero, tx.cash)

\* All the cash is spent, and a buy arriving during the spender's summary
\* has been refused
C9_Witness ==
    /\ db.cash = Zero
    /\ \E t, u \in Tasks :
          /\ t # u /\ InProgress(u) /\ pc[u] \notin RegionPcs
          /\ pc[t] = "close" /\ loc[t].result = "insufficient_cash"

\* C10: for every stored position, amount is 0 exactly when total_cost is 0,
\* neither is negative, and when amount > 0 the stored avg_entry_price is
\* total_cost / amount.
C10_PositionInvariant ==
    \A c \in Coins :
        LET row == db.portfolio[c]
        IN  row.present =>
               /\ (row.amount = Zero) <=> (row.total_cost = Zero)
               /\ RLe(Zero, row.amount) /\ RLe(Zero, row.total_cost)
               /\ RPos(row.amount) => row.avg_entry_price = RDiv(row.total_cost, row.amount)

\* A position bought at two prices is stored with an average between them
C10_Witness ==
    \E c \in Coins :
        /\ db.portfolio[c].present /\ RPos(db.portfolio[c].amount)
        /\ RLt(R(50000), db.portfolio[c].avg_entry_price)
        /\ RLt(db.portfolio[c].avg_entry_price, R(60000))

\* C12: when a step inside the atomic region fails unexpectedly (after the
\* cash write, after the position write, after the trade insert and before
\* the commit), the call returns a failure, no step of it has changed the
\* committed cash, positions or trade log, and at its return it holds
\* neither lock nor the store's write lock, so that later trades can proceed.
C12_FailureRollsBack ==
    \A t \in Tasks :
        /\ loc[t].result = "tx_failed" =>
               pc[t] \in {"rollback_exc", "close"} /\ ~touched[t]
        /\ pc[t] = "done" /\ res[t] = "tx_failed" =>
               /\ ~touched[t]
               /\ portfolioLock # t /\ tradeLock # t /\ dbWriter # t
               /\ \A i \in 1..Len(tradeWaiters) : tradeWaiters[i] # t

\* A call has returned the failure of its commit, after it had written the
\* cash, the position and the trade record in its transaction
C12_Witness ==
    \E t \in Tasks :
        /\ pc[t] = "done" /\ res[t] = "tx_failed"
        /\ loc[t].failed_at = "commit"

\* The cash of the committed ledger whose trade log is trades: every trade
\* is committed together with its cash write
RECURSIVE CashAfter(_)
CashAfter(trades) ==
    IF trades = << >> THEN R(InitialCash)
    ELSE LET last == trades[Len(trades)]
             before == CashAfter(SubSeq(trades, 1, Len(trades) - 1))
         IN  IF last.side = "buy" THEN RSub(before, last.total_usd)
             ELSE RAdd(before, last.total_usd)

\* The summaries that have read the cash, the positions and the trade history
SummariesRead == {t \in Tasks : pc[t] \in {"sum_snaps", "snap_insert", "snap_commit"}}

\* C13: every result of get_portfolio_summary is computed from one committed
\* ledger state: its cash and its trade history (and positions) are those of
\* the same state, never the cash of before and the history of after a trade
\* that committed while the summary was being built.
C13_SummaryFromOneState ==
    \A t \in SummariesRead : loc[t].s_cash = CashAfter(loc[t].s_trades)

\* C14: every call whose trade is applied appends exactly one
\* PortfolioSnapshot and a call whose trade is not applied appends none:
\* whenever no call is in progress, the snapshot log is as long as the trade
\* log.
C14_SnapshotPerTrade ==
    (\A t \in Tasks : ~InProgress(t)) => Len(db.snapshots) = Len(db.trades)

\* C15: after any successful trade, buy or sell, every stored position has
\* amount 0 with total_cost 0, or an amount of at least the dust threshold
\* 1e-8 (a position that would fall below it is zeroed, its row kept).
C15_NoDustStored ==
    \A c \in Coins :
        db.portfolio[c].present =>
            \/ db.portfolio[c].amount = Zero /\ db.portfolio[c].total_cost = Zero
            \/ RLe(Dust, db.portfolio[c].amount)

\* C16: the cash balance is 10000 on first use and is never reset: init_db
\* inserts the cash record only if there is none, running init_db again
\* leaves the whole store as it is, and the cash changes only with the commit
\* of a trade.
C16_CashNeverReset ==
    /\ CashBalance(EmptyFile) = R(InitialCash)
    /\ InitDb(EmptyFile).cash = R(InitialCash)
    /\ [][ /\ Restart => db' = db
           /\ db'.cash # db.cash => \E t \in Tasks : Commit(t) ]_vars

\* The process has been started again on a store whose cash a trade of the
\* run before it has changed
C16_Witness ==
    /\ \A t \in Tasks : pc[t] = "idle"
    /\ calls > 0
    /\ db.trades # << >>
    /\ db.cash \notin {R(InitialCash), KeptStore.cash}

\* C24: once fetch_prices has succeeded, every later fetch_prices call
\* returns a price mapping, freshly fetched or the last good one, and never
\* raises, whatever way the upstream fails (rate limiting, an HTTP error
\* status, a transport failure); a failed refresh leaves the cached mapping
\* unchanged.
C24_FetchFallsBack ==
    [][ \A t \in Tasks :
           pc[t] \in {"fetch", "sum_fetch"} /\ pc'[t] = "done" /\ res'[t] = "raised" =>
               ~NonEmpty(priceCache) ]_vars

\* ------------------------------------------- the ledger in float arithmetic
\* The ledger's numbers are Python floats stored as SQLite REAL: binary
\* floating point, every result rounded to the nearest representable number,
\* ties to the even significand.  binary64 keeps 53 significant bits; this
\* part of the model keeps MantissaBits of them and no exponent limits.
MantissaBits == 12

\* The unit in the last place of x = n/d > 0: the power of two u with
\* 2^(MantissaBits-1) * u <= x < 2^MantissaBits * u; UlpUp looks for it among
\* 1, 2, 4, ... and UlpDown for its reciprocal among 1, 2, 4, ...
UlpUp[n \in Nat, d \in Nat, u \in Nat] ==
    IF Less[n, d, 2^MantissaBits * u, 1] THEN u ELSE UlpUp[n, d, 2 * u]

UlpDown[n \in Nat, d \in Nat, v \in Nat] ==
    IF Less[n, d, 2^(MantissaBits - 1), v] THEN UlpDown[n, d, 2 * v] ELSE v

Ulp[n \in Nat, d \in Nat] ==
    IF Less[n, d, 2^(MantissaBits - 1), 1]
    THEN Frac(1, UlpDown[n, d, 1])
    ELSE R(UlpUp[n, d, 1])

\* The integer nearest to n/d >= 0, the even one of two equally near
RoundHalfEven[n \in Nat, d \in Nat] ==
    LET q == n \div d
        r == n % d
    IN  IF 2 * r > d \/ (2 * r = d /\ q % 2 = 1) THEN q + 1 ELSE q

Nearest(m) == RoundHalfEven[m.n, m.d]

\* The multiple of u nearest to x >= 0
RoundTo(x, u) == RMul(R(Nearest(RDiv(x, u))), u)

\* x = xn/xd rounded to the nearest float, ties to even
FRound[xn \in Int, xd \in Nat] ==
    IF xn = 0 THEN Zero
    ELSE IF xn < 0 THEN RNeg(RoundTo([n |-> -xn, d |-> xd], Ulp[-xn, xd]))
    ELSE RoundTo([n |-> xn, d |-> xd], Ulp[xn, xd])

Float(x) == FRound[x.n, x.d]

FAdd(a, b) == Float(RAdd(a, b))
FSub(a, b) == Float(RSub(a, b))
FMul(a, b) == Float(RMul(a, b))
FDiv(a, b) == Float(RDiv(a, b))

\* Buy branch and sell branch of execute_trade_atomic, as BuyRow and SellRow,
\* on floats
FloatBuyRow(pos_row, qty, amount_usd) ==
    IF pos_row.present
    THEN LET new_amount == FAdd(pos_row.amount, qty)
             new_cost == FAdd(pos_row.total_cost, amount_usd)
             new_avg == IF RPos(new_amount) THEN FDiv(new_cost, new_amount) ELSE Zero
         IN  Row(new_amount, new_avg, new_cost)
    ELSE LET avg_price == IF RPos(qty) THEN FDiv(amount_usd, qty) ELSE Zero
         IN  Row(qty, avg_price, amount_usd)

FloatSellRow(pos_row, qty) ==
    LET cost_basis == FMul(qty, pos_row.avg_entry_price)
        amount0 == FSub(pos_row.amount, qty)
        cost0 == FSub(pos_row.total_cost, cost_basis)
        closed == RLt(amount0, Dust)
        new_amount == IF closed THEN Zero ELSE amount0
        new_cost == IF closed THEN Zero ELSE cost0
        new_avg == IF RPos(new_amount) THEN FDiv(new_cost, new_amount) ELSE Zero
    IN  Row(new_amount, new_avg, new_cost)

\* USD amounts and prices given as floats
FloatAmounts == {R(5), R(6), R(1000)}

FloatPrices == {R(2), R(3)}

\* The task that makes the calls of the float ledger, one after the other
FirstTask == CHOOSE t \in Tasks : \A u \in Tasks : t <= u

\* execute_trade(coin, side, amount_usd) at price, from the call to its
\* return, with no other call in progress: qty = float(amount_d / price_d),
\* then the buy or the sell branch and the commit
FloatTrade(coin, side, amount_usd, price, label) ==
    LET t == FirstTask
        qty == FDiv(amount_usd, price)
        pos_row == db.portfolio[coin]
        refused == IF side = "buy" THEN InsufficientCash(amount_usd, db.cash)
                   ELSE InsufficientHoldings(pos_row, qty)
        new_cash == IF side = "buy" THEN FSub(db.cash, amount_usd)
                    ELSE FAdd(db.cash, amount_usd)
        new_row == IF side = "buy" THEN FloatBuyRow(pos_row, qty, amount_usd)
                   ELSE FloatSellRow(pos_row, qty)
        record == [coin |-> coin, side |-> side, amount |-> qty, price |-> price,
                   total_usd |-> amount_usd]
    IN  /\ calls' = calls + 1
        /\ req' = [req EXCEPT ![t] = [coin |-> coin, side |-> side, amount |-> amount_usd]]
        /\ pc' = [pc EXCEPT ![t] = label]
        /\ IF refused
           THEN /\ res' = [res EXCEPT ![t] =
                              IF side = "buy" THEN "insufficient_cash"
                              ELSE "insufficient_holdings"]
                /\ UNCHANGED <<db, nApplied>>
           ELSE /\ res' = [res EXCEPT ![t] = "ok"]
                /\ db' = [db EXCEPT !.cash = new_cash, !.portfolio[coin] = new_row,
                                    !.trades = Append(@, record)]
                /\ nApplied' = nApplied + 1
        /\ loc' = [loc EXCEPT ![t] =
                      [NoLoc EXCEPT !.qty = qty, !.price = price,
                                    !.pre_cash = IF label = "bought" THEN db.cash
                                                 ELSE loc[t].pre_cash]]
        /\ UNCHANGED <<locks, tx, dbWriter, market, arrived, touched>>

\* Trades that bring the ledger to some reachable state
FloatCall ==
    /\ pc[FirstTask] = "idle"
    /\ calls < MaxCalls
    /\ \E c \in Coins, side \in {"buy", "sell"}, x \in FloatAmounts, p \in FloatPrices :
          FloatTrade(c, side, x, p, "idle")

\* A buy of x USD that the cash covers ...
FloatBuy ==
    /\ pc[FirstTask] = "idle"
    /\ \E c \in Coins, x \in FloatAmounts, p \in FloatPrices :
          /\ RLe(x, db.cash)
          /\ FloatTrade(c, "buy", x, p, "bought")

\* ... and then at once the sale of x USD of that coin at the same price
FloatSellBack ==
    /\ pc[FirstTask] = "bought"
    /\ FloatTrade(req[FirstTask].coin, "sell", req[FirstTask].amount,
                  loc[FirstTask].price, "sold")

FloatInit ==
    /\ pc = [t \in Tasks |-> "idle"]
    /\ req = [t \in Tasks |-> NoOrder]
    /\ loc = [t \in Tasks |-> NoLoc]
    /\ res = [t \in Tasks |-> "none"]
    /\ loopBlocked = NoTask
    /\ portfolioLock = NoTask
    /\ tradeLock = NoTask
    /\ tradeWaiters = << >>
    /\ db = NewStore
    /\ tx = NoTx
    /\ dbWriter = NoTask
    /\ priceCache = EmptyMap
    /\ calls = 0
    /\ arrived = [t \in Tasks |-> 0]
    /\ nApplied = 0
    /\ touched = [t \in Tasks |-> FALSE]

FloatNext ==
    \/ FloatCall
    \/ FloatBuy
    \/ FloatSellBack

FloatSpec == FloatInit /\ [][FloatNext]_vars

\* C11: buying X USD of a coin (X <= cash) and then at once selling X USD of
\* the same coin at the same price succeeds in both steps and leaves the cash
\* balance exactly what it was before the buy.
C11_RoundTrip ==
    pc[FirstTask] = "sold" =>
        /\ res[FirstTask] = "ok"
        /\ db.cash = loc[FirstTask].pre_cash

\* --------------------------------------------------------- the win rate
MaxLog == 4

HistoryLimit == 100

WinPrices == {2, 3, 4}

WinUsd == R(12)

\* Rows of table trades with their timestamp column, datetime('now') in
\* whole seconds; the id of a row is its index
Stamped(coin, side, price, ts) ==
    [ coin |-> coin, side |-> side, amount |-> RDiv(WinUsd, R(price)),
      price |-> R(price), total_usd |-> WinUsd, timestamp |-> ts ]

\* get_trade_history(limit): ORDER BY id DESC LIMIT ?
GetTradeHistory(trades, limit) ==
    LET n == Len(trades)
        m == IF n < limit THEN n ELSE limit
    IN  [i \in 1..m |-> trades[n + 1 - i]]

\* quantize(Decimal("0.1"), rounding=ROUND_HALF_UP) of x >= 0
RoundTenth(x) == Frac((20 * x.n + x.d) \div (2 * x.d), 10)

\* matching_buys of a sell, in the order of the history
MatchingBuys(history, sell_trade) ==
    LET Matches(b) == /\ b.coin = sell_trade.coin
                      /\ b.side = "buy"
                      /\ b.timestamp < sell_trade.timestamp
    IN  SelectSeq(history, Matches)

\* "if matching_buys and sell_trade["price"] > matching_buys[-1]["price"]"
IsWin(history, sell_trade) ==
    LET matching_buys == MatchingBuys(history, sell_trade)
    IN  /\ matching_buys # << >>
        /\ RLt(matching_buys[Len(matching_buys)].price, sell_trade.price)

\* win_rate of get_portfolio_summary
WinRate(history) ==
    LET sells == {i \in 1..Len(history) : history[i].side = "sell"}
        wins == {i \in sells : IsWin(history, history[i])}
    IN  IF sells = {} THEN Zero
        ELSE RoundTenth(RMul(RDiv(R(Cardinality(wins)), R(Cardinality(sells))), R(100)))

\* What the coin's position holds after the trades of the log
RECURSIVE Held(_, _)
Held(trades, coin) ==
    IF trades = << >> THEN Zero
    ELSE LET last == trades[Len(trades)]
             before == Held(SubSeq(trades, 1, Len(trades) - 1), coin)
         IN  IF last.coin # coin THEN before
             ELSE IF last.side = "buy" THEN RAdd(before, last.amount)
             ELSE RSub(before, last.amount)

\* A trade of WinUsd is committed, in the second of the trade before it or
\* in a later one; a sell needs the holdings
LogTrade ==
    /\ Len(db.trades) < MaxLog
    /\ \E c \in Coins, side \in {"buy", "sell"}, p \in WinPrices, dt \in {0, 1} :
          LET ts == IF db.trades = << >> THEN 1
                    ELSE db.trades[Len(db.trades)].timestamp + dt
              row == Stamped(c, side, p, ts)
          IN  /\ side = "sell" => RLe(row.amount, Held(db.trades, c))
              /\ db' = [db EXCEPT !.trades = Append(@, row)]
    /\ pc' = [pc EXCEPT ![FirstTask] = "idle"]
    /\ res' = [res EXCEPT ![FirstTask] = "none"]
    /\ UNCHANGED <<req, loc, locks, tx, dbWriter, market, calls, arrived, nApplied, touched>>

\* get_portfolio_summary reads the history and returns the win rate
Summarise ==
    /\ pc[FirstTask] = "idle"
    /\ pc' = [pc EXCEPT ![FirstTask] = "done"]
    /\ res' = [res EXCEPT ![FirstTask] =
                  [win_rate |-> WinRate(GetTradeHistory(db.trades, HistoryLimit))]]
    /\ UNCHANGED <<req, loc, locks, store, market, calls, arrived, nApplied, touched>>

WinNext ==
    \/ LogTrade
    \/ Summarise

WinSpec == FloatInit /\ [][WinNext]_vars

\* The buys of the sell's coin with an earlier timestamp, by index in the log
EarlierBuys(trades, k) ==
    {j \in 1..Len(trades) : /\ trades[j].coin = trades[k].coin
                             /\ trades[j].side = "buy"
                             /\ trades[j].timestamp < trades[k].timestamp}

\* The sell at index k is a win as stated: its price is above the price of
\* the most recent of those buys
StatedWin(trades, k) ==
    /\ EarlierBuys(trades, k) # {}
    /\ LET j == CHOOSE x \in EarlierBuys(trades, k) :
                    \A y \in EarlierBuys(trades, k) : y <= x
       IN  RLt(trades[j].price, trades[k].price)

StatedWinRate(trades) ==
    LET sells == {k \in 1..Len(trades) : trades[k].side = "sell"}
        wins == {k \in sells : StatedWin(trades, k)}
    IN  IF sells = {} THEN Zero
        ELSE RoundTenth(RMul(RDiv(R(Cardinality(wins)), R(Cardinality(sells))), R(100)))

\* C17: in get_portfolio_summary each sell is compared with the most recent
\* buy of the same coin whose timestamp is earlier than the sell's and is a
\* win exactly when its price is greater than that buy's; win_rate is wins
\* divided by the number of sells, times 100 (to one decimal), 0 with no sells.
C17_WinRate ==
    pc[FirstTask] = "done" => res[FirstTask].win_rate = StatedWinRate(db.trades)

\* ------------------------------------------------------------ backtest
MinBars == 60

MinLookback == 55

WindowBars == 200

ShortPeriod == 20

LongPeriod == 50

SampleTarget == 200

TradesKept == 20

InitialCapital == 10000

\* The series of the requests: FlatBars bars at BasePrice, then a tail of
\* MinTail to MaxTail bars with prices of TailPrices
FlatBars == 55

BasePrice == 2

TailPrices == {1, 3}

MinTail == 4

MaxTail == 6

Tails == UNION {[1..n -> TailPrices] : n \in MinTail..MaxTail}

Series(tail) == [k \in 1..(FlatBars + Len(tail)) |-> IF k <= FlatBars THEN BasePrice ELSE tail[k - FlatBars]]

StrategyIds == {"ma_crossover", "unknown"}

\* Python's prices[a : b] for 0 <= a <= b, on a sequence indexed from 1
Slice(prices, a, b) == SubSeq(prices, a + 1, IF b < Len(prices) THEN b ELSE Len(prices))

\* The value numpy gives where there are too few data points
NaN == [n |-> 0, d |-> 0]

\* round(x, 2) for x >= 0
Round2(x) == Frac(Nearest(RMul(x, R(100))), 100)

RMin(a, b) == IF RLt(b, a) THEN b ELSE a

RAbs(x) == [n |-> Abs(x.n), d |-> x.d]

SumTo[data \in Seq(Int), lo \in Int, hi \in Int] ==
    IF hi < lo THEN 0 ELSE data[hi] + SumTo[data, lo, hi - 1]

\* _sma(data, period)[k - 1]: the mean of the period values that end at the
\* k-th, nan where there are fewer
Sma(data, period, k) ==
    IF Len(data) < period \/ k < period THEN NaN
    ELSE Frac(SumTo[data, k - period + 1, k], period)

Hold(confidence, reason) ==
    [signal |-> "hold", confidence |-> confidence, reason |-> reason]

\* Variant of ma_crossover_signal that asks the short average to have been
\* strictly on the other side on the previous bar
ma_crossover_strict(prices, short_period, long_period) ==
    IF Len(prices) < long_period + 2 THEN Hold(Zero, "insufficient_data")
    ELSE LET current_short == Sma(prices, short_period, Len(prices))
             current_long == Sma(prices, long_period, Len(prices))
             prev_short == Sma(prices, short_period, Len(prices) - 1)
             prev_long == Sma(prices, long_period, Len(prices) - 1)
             spread == RMul(RDiv(RSub(current_short, current_long), current_long), R(100))
             crossing == Round2(RMin(Frac(95, 100),
                                     RAdd(Frac(6, 10), RMul(RAbs(spread), Frac(1, 10)))))
         IN  IF current_short = NaN \/ current_long = NaN
             THEN Hold(Zero, "insufficient_data_for_mas")
             ELSE IF RLt(prev_short, prev_long) /\ RLt(current_long, current_short)
             THEN [signal |-> "buy", confidence |-> crossing, reason |-> "bullish_crossover"]
             ELSE IF RLt(prev_long, prev_short) /\ RLt(current_short, current_long)
             THEN [signal |-> "sell", confidence |-> crossing, reason |-> "bearish_crossover"]
             ELSE Hold(Round2(RMin(Frac(8, 10), RMul(RAbs(spread), Frac(5, 100)))),
                       "no_crossover")

ma_crossover_signal(prices, short_period, long_period) ==
    IF Len(prices) < long_period + 2 THEN Hold(Zero, "insufficient_data")
    ELSE LET current_short == Sma(prices, short_period, Len(prices))
             current_long == Sma(prices, long_period, Len(prices))
             prev_short == Sma(prices, short_period, Len(prices) - 1)
             prev_long == Sma(prices, long_period, Len(prices) - 1)
             spread == RMul(RDiv(RSub(current_short, current_long), current_long), R(100))
             crossing == Round2(RMin(Frac(95, 100),
                                     RAdd(Frac(6, 10), RMul(RAbs(spread), Frac(1, 10)))))
         IN  IF current_short = NaN \/ current_long = NaN
             THEN Hold(Zero, "insufficient_data_for_mas")
             ELSE IF RLe(prev_short, prev_long) /\ RLt(current_long, current_short)
             THEN [signal |-> "buy", confidence |-> crossing, reason |-> "bullish_crossover"]
             ELSE IF RLe(prev_long, prev_short) /\ RLt(current_short, current_long)
             THEN [signal |-> "sell", confidence |-> crossing, reason |-> "bearish_crossover"]
             ELSE Hold(Round2(RMin(Frac(8, 10), RMul(RAbs(spread), Frac(5, 100)))),
                       "no_crossover")

\* The keys of strategy_map
KnownStrategies == {"ma_crossover", "rsi", "macd", "bollinger_bands"}

\* f"Unknown strategy: {strategy_id}"
UnknownStrategy(strategy_id) == <<"unknown_strategy", strategy_id>>

\* Variant of get_signal that treats an unknown strategy as ma_crossover
get_signal_default(strategy_id, prices) ==
    ma_crossover_signal(prices, ShortPeriod, LongPeriod)

\* get_signal with the default parameters; of the known strategies only
\* ma_crossover is drawn by StrategyIds, the other three are not modelled
get_signal(strategy_id, prices) ==
    IF strategy_id \notin KnownStrategies THEN Hold(Zero, UnknownStrategy(strategy_id))
    ELSE IF strategy_id = "ma_crossover"
    THEN ma_crossover_signal(prices, ShortPeriod, LongPeriod)
    ELSE Hold(Zero, "not_modelled")

\* Variant of Window that also hands the bar after i to the signal engine
WindowAhead(prices, i) ==
    Slice(prices, IF i - WindowBars > 0 THEN i - WindowBars ELSE 0, i + 2)

\* window = prices[max(0, i - 200) : i + 1]
Window(prices, i) ==
    Slice(prices, IF i - WindowBars > 0 THEN i - WindowBars ELSE 0, i + 1)

\* The locals of backtest before its loop
LoopStart ==
    [ i |-> MinLookback, capital |-> R(InitialCapital), position |-> Zero,
      entry_price |-> Zero, equity_curve |-> << >>, trades |-> << >>,
      wins |-> 0, losses |-> 0, bars |-> << >> ]

\* Variant of BarStep that buys on a buy signal also when a position is open
BarStepRebuys(l, sig, current_price) ==
    LET portfolio_value == RAdd(l.capital, RMul(l.position, current_price))
        buys == sig.signal = "buy" /\ RLt(Frac(4, 10), sig.confidence)
        sells == ~buys /\ sig.signal = "sell" /\ RPos(l.position)
        invest == RMul(l.capital, RAdd(Frac(1, 10), RMul(sig.confidence, Frac(15, 100))))
        pnl == RMul(RSub(current_price, l.entry_price), l.position)
        capital == IF buys THEN RSub(l.capital, invest)
                   ELSE IF sells THEN RAdd(l.capital, RMul(l.position, current_price))
                   ELSE l.capital
        position == IF buys THEN RDiv(invest, current_price)
                    ELSE IF sells THEN Zero ELSE l.position
        action == IF buys THEN "buy" ELSE IF sells THEN "sell" ELSE "none"
    IN  [ i |-> l.i + 1,
          capital |-> capital,
          position |-> position,
          entry_price |-> IF buys THEN current_price ELSE IF sells THEN Zero ELSE l.entry_price,
          equity_curve |-> Append(l.equity_curve, Round2(portfolio_value)),
          trades |-> IF buys \/ sells
                     THEN Append(l.trades, [type |-> action, price |-> current_price, bar |-> l.i])
                     ELSE l.trades,
          wins |-> IF sells /\ RPos(pnl) THEN l.wins + 1 ELSE l.wins,
          losses |-> IF sells /\ ~RPos(pnl) THEN l.losses + 1 ELSE l.losses,
          bars |-> Append(l.bars, [action |-> action, capital |-> capital, position |-> position]) ]

\* Variant of BarStep that counts a sell at the entry price as neither a win
\* nor a loss
BarStepDropsTies(l, sig, current_price) ==
    LET portfolio_value == RAdd(l.capital, RMul(l.position, current_price))
        buys == sig.signal = "buy" /\ RLt(Frac(4, 10), sig.confidence) /\ l.position = Zero
        sells == ~buys /\ sig.signal = "sell" /\ RPos(l.position)
        invest == RMul(l.capital, RAdd(Frac(1, 10), RMul(sig.confidence, Frac(15, 100))))
        pnl == RMul(RSub(current_price, l.entry_price), l.position)
        capital == IF buys THEN RSub(l.capital, invest)
                   ELSE IF sells THEN RAdd(l.capital, RMul(l.position, current_price))
                   ELSE l.capital
        position == IF buys THEN RDiv(invest, current_price)
                    ELSE IF sells THEN Zero ELSE l.position
        action == IF buys THEN "buy" ELSE IF sells THEN "sell" ELSE "none"
    IN  [ i |-> l.i + 1,
          capital |-> capital,
          position |-> position,
          entry_price |-> IF buys THEN current_price ELSE IF sells THEN Zero ELSE l.entry_price,
          equity_curve |-> Append(l.equity_curve, Round2(portfolio_value)),
          trades |-> IF buys \/ sells
                     THEN Append(l.trades, [type |-> action, price |-> current_price, bar |-> l.i])
                     ELSE l.trades,
          wins |-> IF sells /\ RPos(pnl) THEN l.wins + 1 ELSE l.wins,
          losses |-> IF sells /\ RPos(RNeg(pnl)) THEN l.losses + 1 ELSE l.losses,
          bars |-> Append(l.bars, [action |-> action, capital |-> capital, position |-> position]) ]

\* Variant of BarStep whose equity entry leaves the position out
BarStepCashOnly(l, sig, current_price) ==
    LET portfolio_value == l.capital
        buys == sig.signal = "buy" /\ RLt(Frac(4, 10), sig.confidence) /\ l.position = Zero
        sells == ~buys /\ sig.signal = "sell" /\ RPos(l.position)
        invest == RMul(l.capital, RAdd(Frac(1, 10), RMul(sig.confidence, Frac(15, 100))))
        pnl == RMul(RSub(current_price, l.entry_price), l.position)
        capital == IF buys THEN RSub(l.capital, invest)
                   ELSE IF sells THEN RAdd(l.capital, RMul(l.position, current_price))
                   ELSE l.capital
        position == IF buys THEN RDiv(invest, current_price)
                    ELSE IF sells THEN Zero ELSE l.position
        action == IF buys THEN "buy" ELSE IF sells THEN "sell" ELSE "none"
    IN  [ i |-> l.i + 1,
          capital |-> capital,
          position |-> position,
          entry_price |-> IF buys THEN current_price ELSE IF sells THEN Zero ELSE l.entry_price,
          equity_curve |-> Append(l.equity_curve, Round2(portfolio_value)),
          trades |-> IF buys \/ sells
                     THEN Append(l.trades, [type |-> action, price |-> current_price, bar |-> l.i])
                     ELSE l.trades,
          wins |-> IF sells /\ RPos(pnl) THEN l.wins + 1 ELSE l.wins,
          losses |-> IF sells /\ ~RPos(pnl) THEN l.losses + 1 ELSE l.losses,
          bars |-> Append(l.bars, [action |-> action, capital |-> capital, position |-> position]) ]

\* Variant of BarStep that sells on a sell signal also when no position is open
BarStepSellsFlat(l, sig, current_price) ==
    LET portfolio_value == RAdd(l.capital, RMul(l.position, current_price))
        buys == sig.signal = "buy" /\ RLt(Frac(4, 10), sig.confidence) /\ l.position = Zero
        sells == ~buys /\ sig.signal = "sell"
        invest == RMul(l.capital, RAdd(Frac(1, 10), RMul(sig.confidence, Frac(15, 100))))
        pnl == RMul(RSub(current_price, l.entry_price), l.position)
        capital == IF buys THEN RSub(l.capital, invest)
                   ELSE IF sells THEN RAdd(l.capital, RMul(l.position, current_price))
                   ELSE l.capital
        position == IF buys THEN RDiv(invest, current_price)
                    ELSE IF sells THEN Zero ELSE l.position
        action == IF buys THEN "buy" ELSE IF sells THEN "sell" ELSE "none"
    IN  [ i |-> l.i + 1,
          capital |-> capital,
          position |-> position,
          entry_price |-> IF buys THEN current_price ELSE IF sells THEN Zero ELSE l.entry_price,
          equity_curve |-> Append(l.equity_curve, Round2(portfolio_value)),
          trades |-> IF buys \/ sells
                     THEN Append(l.trades, [type |-> action, price |-> current_price, bar |-> l.i])
                     ELSE l.trades,
          wins |-> IF sells /\ RPos(pnl) THEN l.wins + 1 ELSE l.wins,
          losses |-> IF sells /\ ~RPos(pnl) THEN l.losses + 1 ELSE l.losses,
          bars |-> Append(l.bars, [action |-> action, capital |-> capital, position |-> position]) ]

\* Variant of BarStep whose risk fraction is 0.1 + confidence * 1.5
BarStepOverInvests(l, sig, current_price) ==
    LET portfolio_value == RAdd(l.capital, RMul(l.position, current_price))
        buys == sig.signal = "buy" /\ RLt(Frac(4, 10), sig.confidence) /\ l.position = Zero
        sells == ~buys /\ sig.signal = "sell" /\ RPos(l.position)
        invest == RMul(l.capital, RAdd(Frac(1, 10), RMul(sig.confidence, Frac(15, 10))))
        pnl == RMul(RSub(current_price, l.entry_price), l.position)
        capital == IF buys THEN RSub(l.capital, invest)
                   ELSE IF sells THEN RAdd(l.capital, RMul(l.position, current_price))
                   ELSE l.capital
        position == IF buys THEN RDiv(invest, current_price)
                    ELSE IF sells THEN Zero ELSE l.position
        action == IF buys THEN "buy" ELSE IF sells THEN "sell" ELSE "none"
    IN  [ i |-> l.i + 1,
          capital |-> capital,
          position |-> position,
          entry_price |-> IF buys THEN current_price ELSE IF sells THEN Zero ELSE l.entry_price,
          equity_curve |-> Append(l.equity_curve, Round2(portfolio_value)),
          trades |-> IF buys \/ sells
                     THEN Append(l.trades, [type |-> action, price |-> current_price, bar |-> l.i])
                     ELSE l.trades,
          wins |-> IF sells /\ RPos(pnl) THEN l.wins + 1 ELSE l.wins,
          losses |-> IF sells /\ ~RPos(pnl) THEN l.losses + 1 ELSE l.losses,
          bars |-> Append(l.bars, [action |-> action, capital |-> capital, position |-> position]) ]

\* One pass of the loop body at bar l.i, for the signal and the price of
\* that bar
BarStep(l, sig, current_price) ==
    LET portfolio_value == RAdd(l.capital, RMul(l.position, current_price))
        buys == sig.signal = "buy" /\ RLt(Frac(4, 10), sig.confidence) /\ l.position = Zero
        sells == ~buys /\ sig.signal = "sell" /\ RPos(l.position)
        invest == RMul(l.capital, RAdd(Frac(1, 10), RMul(sig.confidence, Frac(15, 100))))
        pnl == RMul(RSub(current_price, l.entry_price), l.position)
        capital == IF buys THEN RSub(l.capital, invest)
                   ELSE IF sells THEN RAdd(l.capital, RMul(l.position, current_price))
                   ELSE l.capital
        position == IF buys THEN RDiv(invest, current_price)
                    ELSE IF sells THEN Zero ELSE l.position
        action == IF buys THEN "buy" ELSE IF sells THEN "sell" ELSE "none"
    IN  [ i |-> l.i + 1,
          capital |-> capital,
          position |-> position,
          entry_price |-> IF buys THEN current_price ELSE IF sells THEN Zero ELSE l.entry_price,
          equity_curve |-> Append(l.equity_curve, Round2(portfolio_value)),
          trades |-> IF buys \/ sells
                     THEN Append(l.trades, [type |-> action, price |-> current_price, bar |-> l.i])
                     ELSE l.trades,
          wins |-> IF sells /\ RPos(pnl) THEN l.wins + 1 ELSE l.wins,
          losses |-> IF sells /\ ~RPos(pnl) THEN l.losses + 1 ELSE l.losses,
          bars |-> Append(l.bars, [action |-> action, capital |-> capital, position |-> position]) ]

LoopBody(strategy_id, prices, l) ==
    BarStep(l, get_signal(strategy_id, Window(prices, l.i)), R(prices[l.i + 1]))

\* step = max(1, len // 200); equity_curve[::step], and the last value is
\* appended if the sample does not end with it
Downsample(equity_curve) ==
    LET n == Len(equity_curve)
        step == IF n \div SampleTarget > 1 THEN n \div SampleTarget ELSE 1
        m == (n + step - 1) \div step
        sampled_curve == [k \in 1..m |-> equity_curve[(k - 1) * step + 1]]
    IN  IF n > 0 /\ sampled_curve[m] # equity_curve[n]
        THEN Append(sampled_curve, equity_curve[n])
        ELSE sampled_curve

\* Variant of LastTrades that keeps the first trades of the simulation
FirstTrades(trades) ==
    IF Len(trades) <= TradesKept THEN trades ELSE SubSeq(trades, 1, TradesKept)

\* trades[-20:]
LastTrades(trades) ==
    IF Len(trades) <= TradesKept THEN trades
    ELSE SubSeq(trades, Len(trades) - TradesKept + 1, Len(trades))

\* The result of backtest after its loop (without the Sharpe ratio)
BacktestResult(strategy_id, prices, l) ==
    LET final_value == RAdd(l.capital, RMul(l.position, R(prices[Len(prices)])))
        total_return == RMul(RDiv(RSub(final_value, R(InitialCapital)), R(InitialCapital)), R(100))
    IN  [ error |-> "none",
          strategy |-> strategy_id,
          final_value |-> final_value,
          total_return |-> total_return,
          total_trades |-> l.wins + l.losses,
          wins |-> l.wins,
          losses |-> l.losses,
          equity_curve |-> Downsample(l.equity_curve),
          trades |-> LastTrades(l.trades) ]

\* "Need at least 60 data points for backtesting"
TooShort == [error |-> "too_short"]

\* Variant of Enough that asks for one bar more
EnoughStrict(prices) == ~(Len(prices) < MinBars + 1)

\* not (len(prices) < 60)
Enough(prices) == ~(Len(prices) < MinBars)

\* backtest(strategy_id, prices) is called: with too few points it returns
\* the error at once, else it enters its loop
BacktestCall(t) ==
    /\ pc[t] = "idle"
    /\ \A u \in Tasks : u < t => pc[u] = "done"
    /\ \E strategy_id \in StrategyIds, tail \in Tails :
          /\ req' = [req EXCEPT ![t] = [strategy |-> strategy_id, prices |-> Series(tail)]]
          /\ IF Enough(Series(tail))
             THEN /\ pc' = [pc EXCEPT ![t] = "bt_loop"]
                  /\ loc' = [loc EXCEPT ![t] = LoopStart]
                  /\ UNCHANGED res
             ELSE /\ pc' = [pc EXCEPT ![t] = "done"]
                  /\ res' = [res EXCEPT ![t] = TooShort]
                  /\ UNCHANGED loc
    /\ UNCHANGED <<locks, store, market, calls, arrived, nApplied, touched>>

\* for i in range(min_lookback, len(prices)): one bar
BacktestBar(t) ==
    /\ pc[t] = "bt_loop"
    /\ loc[t].i < Len(req[t].prices)
    /\ loc' = [loc EXCEPT ![t] = LoopBody(req[t].strategy, req[t].prices, loc[t])]
    /\ UNCHANGED <<pc, req, res, locks, store, market, calls, arrived, nApplied, touched>>

\* The loop is over: the metrics are computed and the result is returned
BacktestReturn(t) ==
    /\ pc[t] = "bt_loop"
    /\ loc[t].i = Len(req[t].prices)
    /\ pc' = [pc EXCEPT ![t] = "done"]
    /\ res' = [res EXCEPT ![t] = BacktestResult(req[t].strategy, req[t].prices, loc[t])]
    /\ UNCHANGED <<req, loc, locks, store, market, calls, arrived, nApplied, touched>>

BacktestNext ==
    \/ \E t \in Tasks : BacktestCall(t)
    \/ \E t \in Tasks : BacktestBar(t)
    \/ \E t \in Tasks : BacktestReturn(t)

\* Two calls of backtest, one after the other
BacktestSpec == FloatInit /\ [][BacktestNext]_vars

\* C18: backtest returns an explicit error, with no equity curve, trades or
\* metrics, exactly when the price series has fewer than 60 points; with 60
\* or more points it returns a full result.
C18_ErrorIffShort ==
    \A t \in Tasks :
        /\ pc[t] = "bt_loop" => Len(req[t].prices) >= MinBars
        /\ pc[t] = "done" =>
              IF Len(req[t].prices) < MinBars
              THEN res[t] = TooShort
              ELSE /\ res[t].error = "none"
                   /\ {"equity_curve", "trades", "final_value", "total_return",
                       "total_trades", "wins", "losses"} \subseteq DOMAIN res[t]
                   /\ res[t].equity_curve # << >>

\* A series of 59 points has got the error and one of 60 points a result
C18_Witness ==
    \E t, u \in Tasks :
        /\ pc[t] = "done" /\ Len(req[t].prices) = MinBars - 1 /\ res[t] = TooShort
        /\ pc[u] = "done" /\ Len(req[u].prices) = MinBars /\ res[u].error = "none"

\* Bar i (counted from 0) has been decided in the call of task t
Decided19(t, i) == pc[t] \in {"bt_loop", "done"} /\ req[t] # NoOrder /\ "bars" \in DOMAIN loc[t] /\ MinLookback <= i /\ i < loc[t].i

AgreeTo(t, u, i) ==
    /\ req[t].strategy = req[u].strategy
    /\ Len(req[t].prices) > i /\ Len(req[u].prices) > i
    /\ SubSeq(req[t].prices, 1, i + 1) = SubSeq(req[u].prices, 1, i + 1)

\* C19: at every bar i the window given to the signal engine ends at bar i,
\* so the decision at bar i depends only on prices[0..i]: two series that
\* agree on bars 0..i produce the same action and the same simulated
\* balances at bar i.
C19_NoLookahead ==
    \A t, u \in Tasks : \A i \in MinLookback..(FlatBars + MaxTail) :
        Decided19(t, i) /\ Decided19(u, i) /\ AgreeTo(t, u, i) =>
            loc[t].bars[i - MinLookback + 1] = loc[u].bars[i - MinLookback + 1]

\* Two series agree up to a bar at which both calls buy, and differ at the
\* next bar
C19_Witness ==
    \E t, u \in Tasks : \E i \in MinLookback..(FlatBars + MaxTail) :
        /\ t # u
        /\ Decided19(t, i) /\ Decided19(u, i) /\ AgreeTo(t, u, i)
        /\ loc[t].bars[i - MinLookback + 1].action = "buy"
        /\ Len(req[t].prices) > i + 1 /\ Len(req[u].prices) > i + 1
        /\ req[t].prices[i + 2] # req[u].prices[i + 2]

\* --------------------------------------------- the returned equity curve
MaxCurve == 450

MaxStride == 3

CurveShapes == {"flat", "ramp", "saw"}

\* Full per-bar equity curves of n values, in cents
Curve(shape, n) ==
    [k \in 1..n |-> IF shape = "flat" THEN 1000000
                    ELSE IF shape = "ramp" THEN 1000000 + k
                    ELSE 1000000 + (k % 2)]

\* backtest has run its loop over a series of MinLookback + n points and
\* samples the curve it has built
BacktestSample ==
    /\ pc[FirstTask] = "idle"
    /\ \E shape \in CurveShapes, n \in (MinBars - MinLookback)..MaxCurve :
          /\ loc' = [loc EXCEPT ![FirstTask] = [equity_curve |-> Curve(shape, n)]]
          /\ res' = [res EXCEPT ![FirstTask] = [equity_curve |-> Downsample(Curve(shape, n))]]
    /\ pc' = [pc EXCEPT ![FirstTask] = "done"]
    /\ UNCHANGED <<req, locks, store, market, calls, arrived, nApplied, touched>>

SampleSpec == FloatInit /\ [][BacktestSample]_vars

\* C20: the returned equity curve has at most 200 sampled points, plus at
\* most one appended final point, taken at a uniform stride from the full
\* curve, and its last entry is the last value of the full curve, for every
\* series of 60 points or more.
C20_SampledCurve ==
    pc[FirstTask] = "done" =>
        LET full == loc[FirstTask].equity_curve
            out == res[FirstTask].equity_curve
        IN  /\ Len(out) <= SampleTarget + 1
            /\ out[Len(out)] = full[Len(full)]
            /\ \E step \in 1..MaxStride :
                  \A k \in 1..(Len(out) - 1) : out[k] = full[(k - 1) * step + 1]

\* ------------------------------------------------- the returned trade list
MaxTrades == 45

MaxSpacing == 3

\* The trades a simulation records: buys and sells in turn, the first a buy,
\* one every spacing bars from bar MinLookback on
TradeList(n, spacing) ==
    [k \in 1..n |-> [type |-> IF k % 2 = 1 THEN "buy" ELSE "sell",
                     price |-> R(BasePrice + (k % 2)),
                     bar |-> MinLookback + (k - 1) * spacing]]

\* backtest has run its loop, has recorded n trades and returns
BacktestTrades ==
    /\ pc[FirstTask] = "idle"
    /\ \E n \in 0..MaxTrades, spacing \in 1..MaxSpacing :
          /\ loc' = [loc EXCEPT ![FirstTask] = [trades |-> TradeList(n, spacing)]]
          /\ res' = [res EXCEPT ![FirstTask] = [trades |-> LastTrades(TradeList(n, spacing))]]
    /\ pc' = [pc EXCEPT ![FirstTask] = "done"]
    /\ UNCHANGED <<req, locks, store, market, calls, arrived, nApplied, touched>>

TradesSpec == FloatInit /\ [][BacktestTrades]_vars

\* C21: the trade list returned by backtest has at most 20 entries and is
\* exactly the last min(20, n) of the n trades recorded during the
\* simulation, in their original order.
C21_LastTrades ==
    pc[FirstTask] = "done" =>
        LET full == loc[FirstTask].trades
            out == res[FirstTask].trades
            n == Len(full)
            m == IF n < 20 THEN n ELSE 20
        IN  /\ Len(out) <= 20
            /\ Len(out) = m
            /\ \A k \in 1..m : out[k] = full[n - m + k]

\* A simulation that recorded more than 20 trades has returned
C21_Witness ==
    /\ pc[FirstTask] = "done"
    /\ Len(loc[FirstTask].trades) > 20
    /\ Len(res[FirstTask].trades) = 20

\* The calls of backtest that have entered the loop
LoopRuns == {t \in Tasks : pc[t] = "bt_loop" \/ (pc[t] = "done" /\ res[t] # TooShort)}

\* Those with a strategy that get_signal does not know
UnknownRuns == {t \in LoopRuns : req[t].strategy \notin KnownStrategies}

MinFlat == 46

MaxFlat == 50

SignalTails == UNION {[1..n -> TailPrices] : n \in 1..MaxTail}

\* ma_crossover_signal is called with the default periods on flat bars at
\* BasePrice followed by a tail
SignalCall ==
    /\ pc[FirstTask] = "idle"
    /\ \E flat \in MinFlat..MaxFlat, tail \in SignalTails :
          LET prices == [k \in 1..(flat + Len(tail)) |->
                            IF k <= flat THEN BasePrice ELSE tail[k - flat]]
          IN  /\ req' = [req EXCEPT ![FirstTask] = [strategy |-> "ma_crossover", prices |-> prices]]
              /\ res' = [res EXCEPT ![FirstTask] =
                            ma_crossover_signal(prices, ShortPeriod, LongPeriod)]
    /\ pc' = [pc EXCEPT ![FirstTask] = "done"]
    /\ UNCHANGED <<loc, locks, store, market, calls, arrived, nApplied, touched>>

SignalSpec == FloatInit /\ [][SignalCall]_vars

\* The short average was at or below the long one on the bar before the last
\* and is above it on the last
CrossedUp(prices) ==
    /\ RLe(Sma(prices, ShortPeriod, Len(prices) - 1), Sma(prices, LongPeriod, Len(prices) - 1))
    /\ RLt(Sma(prices, LongPeriod, Len(prices)), Sma(prices, ShortPeriod, Len(prices)))

CrossedDown(prices) ==
    /\ RLe(Sma(prices, LongPeriod, Len(prices) - 1), Sma(prices, ShortPeriod, Len(prices) - 1))
    /\ RLt(Sma(prices, ShortPeriod, Len(prices)), Sma(prices, LongPeriod, Len(prices)))

\* C23: ma_crossover_signal returns buy exactly when the short SMA was <= the
\* long SMA on the previous bar and is > it on the last bar, sell exactly
\* when it was >= and is <, and hold otherwise; the two conditions are never
\* both true, and with fewer than long_period + 2 points it returns hold with
\* confidence 0.
C23_Crossover ==
    pc[FirstTask] = "done" =>
        LET prices == req[FirstTask].prices
            sig == res[FirstTask]
        IN  IF Len(prices) < LongPeriod + 2
            THEN sig.signal = "hold" /\ sig.confidence = Zero
            ELSE /\ ~(CrossedUp(prices) /\ CrossedDown(prices))
                 /\ sig.signal = "buy" <=> CrossedUp(prices)
                 /\ sig.signal = "sell" <=> CrossedDown(prices)
                 /\ sig.signal = "hold" <=> ~CrossedUp(prices) /\ ~CrossedDown(prices)

\* A buy was signalled for a short average that was equal to the long one on
\* the previous bar
C23_Witness ==
    /\ pc[FirstTask] = "done"
    /\ Len(req[FirstTask].prices) >= LongPeriod + 2
    /\ res[FirstTask].signal = "buy"
    /\ Sma(req[FirstTask].prices, ShortPeriod, Len(req[FirstTask].prices) - 1)
          = Sma(req[FirstTask].prices, LongPeriod, Len(req[FirstTask].prices) - 1)

\* ------------------------------------------------- the window on its own
MaxSeries == 260

MinSeries == 257

\* A series of n points whose k-th price is k, so that every bar is known by
\* its price
Ramp(n) == [k \in 1..n |-> k]

\* The loop of backtest reaches bar i of a series of n points and cuts the
\* window
BacktestWindow ==
    /\ pc[FirstTask] = "idle"
    /\ \E n \in MinSeries..MaxSeries : \E i \in MinLookback..(n - 1) :
          /\ req' = [req EXCEPT ![FirstTask] = [strategy |-> "ma_crossover", prices |-> Ramp(n), i |-> i]]
          /\ res' = [res EXCEPT ![FirstTask] = [window |-> Window(Ramp(n), i)]]
    /\ pc' = [pc EXCEPT ![FirstTask] = "done"]
    /\ UNCHANGED <<loc, locks, store, market, calls, arrived, nApplied, touched>>

WindowSpec == FloatInit /\ [][BacktestWindow]_vars

\* C25: at every bar i of the backtest loop the window given to the signal
\* engine contains at most 200 bars: the last 200 bars ending at bar i, or
\* all bars 0..i when fewer exist.
C25_WindowSize ==
    pc[FirstTask] = "done" =>
        LET prices == req[FirstTask].prices
            i == req[FirstTask].i
            window == res[FirstTask].window
            m == IF i + 1 < 200 THEN i + 1 ELSE 200
        IN  /\ Len(window) <= 200
            /\ window = SubSeq(prices, i + 1 - m + 1, i + 1)

\* The step is one pass of the loop of task t
BarOf(t) == pc[t] = "bt_loop" /\ pc'[t] = "bt_loop" /\ loc'[t] # loc[t]

\* The trade the step of task t has recorded, if it has recorded one
Recorded(t, type) ==
    /\ Len(loc'[t].trades) = Len(loc[t].trades) + 1
    /\ loc'[t].trades[Len(loc'[t].trades)].type = type
    /\ SubSeq(loc'[t].trades, 1, Len(loc[t].trades)) = loc[t].trades

SignalAt(t, i) == get_signal(req[t].strategy, Window(req[t].prices, i))

PriceAt(t, i) == R(req[t].prices[i + 1])

\* C26: in the backtest loop a buy is executed at a bar exactly when the
\* signal is buy, its confidence is greater than 0.4 and no position is open;
\* it moves the fraction 0.1 + confidence * 0.15 of the current cash into the
\* position at that bar's price, sets the entry price to that price and
\* records one buy trade; in every other case no buy is recorded.
C26_BuyStep ==
    [][ \A t \in Tasks : BarOf(t) =>
           LET sig == SignalAt(t, loc[t].i)
               price == PriceAt(t, loc[t].i)
               fraction == RAdd(Frac(1, 10), RMul(sig.confidence, Frac(15, 100)))
               moved == RMul(loc[t].capital, fraction)
               due == /\ sig.signal = "buy"
                      /\ RLt(Frac(4, 10), sig.confidence)
                      /\ loc[t].position = Zero
           IN  /\ due <=> Recorded(t, "buy")
               /\ due => /\ loc'[t].capital = RSub(loc[t].capital, moved)
                         /\ loc'[t].position = RDiv(moved, price)
                         /\ loc'[t].entry_price = price
                         /\ loc'[t].trades[Len(loc'[t].trades)].price = price ]_vars

\* A call has bought at one bar and has let a later buy signal pass because
\* the position was open
C26_Witness ==
    \E t \in LoopRuns : \E j, k \in 1..Len(loc[t].bars) :
        /\ j < k
        /\ loc[t].bars[j].action = "buy"
        /\ SignalAt(t, MinLookback + k - 1).signal = "buy"
        /\ loc[t].bars[k].action = "none"

\* ---------------------------------------------------------------------
\* The loop body alone, on the signals and prices a bar can bring
\* ---------------------------------------------------------------------
MaxSteps == 5

StepPrices == {1, 2, 3}

\* The signals the strategies return: a hold, a buy or a sell with the
\* confidence of the strategy
StepSignals ==
    {[signal |-> "hold", confidence |-> Frac(3, 10)],
     [signal |-> "buy", confidence |-> Frac(6, 10)],
     [signal |-> "buy", confidence |-> Frac(95, 100)],
     [signal |-> "sell", confidence |-> Frac(6, 10)]}

\* backtest enters its loop
LoopEnter ==
    /\ pc[FirstTask] = "idle"
    /\ pc' = [pc EXCEPT ![FirstTask] = "bt_loop"]
    /\ loc' = [loc EXCEPT ![FirstTask] = LoopStart]
    /\ UNCHANGED <<req, res, locks, store, market, calls, arrived, nApplied, touched>>

\* one pass of the loop, on the signal and the price of its bar
LoopBar ==
    /\ pc[FirstTask] = "bt_loop"
    /\ Len(loc[FirstTask].bars) < MaxSteps
    /\ \E sig \in StepSignals, price \in StepPrices :
          /\ req' = [req EXCEPT ![FirstTask] = [sig |-> sig, current_price |-> R(price)]]
          /\ loc' = [loc EXCEPT ![FirstTask] = BarStep(loc[FirstTask], sig, R(price))]
    /\ UNCHANGED <<pc, res, locks, store, market, calls, arrived, nApplied, touched>>

LoopNext == LoopEnter \/ LoopBar

LoopSpec == FloatInit /\ [][LoopNext]_vars

SellsRecorded(trades) == Cardinality({k \in 1..Len(trades) : trades[k].type = "sell"})

\* C27: in the backtest loop a sell is executed at a bar exactly when the
\* signal is sell and a position is open; it liquidates the whole position at
\* that bar's price, realizes pnl = (price - entryPrice) * heldAmount,
\* increments exactly one of the win counter (pnl > 0) or the loss counter
\* (otherwise) and records one sell trade, so that wins + losses always equals
\* the number of sell trades recorded.
C27_SellStep ==
    /\ [](pc[FirstTask] = "bt_loop" =>
             loc[FirstTask].wins + loc[FirstTask].losses
                 = SellsRecorded(loc[FirstTask].trades))
    /\ [][ BarOf(FirstTask) =>
             LET l == loc[FirstTask]
                 sig == req'[FirstTask].sig
                 price == req'[FirstTask].current_price
                 pnl == RMul(RSub(price, l.entry_price), l.position)
                 due == sig.signal = "sell" /\ RPos(l.position)
             IN  /\ due <=> Recorded(FirstTask, "sell")
                 /\ due => /\ loc'[FirstTask].position = Zero
                           /\ loc'[FirstTask].capital
                                = RAdd(l.capital, RMul(l.position, price))
                           /\ RSub(loc'[FirstTask].capital, l.capital)
                                = RAdd(RMul(l.entry_price, l.position), pnl)
                           /\ loc'[FirstTask].wins
                                = l.wins + (IF RPos(pnl) THEN 1 ELSE 0)
                           /\ loc'[FirstTask].losses
                                = l.losses + (IF RPos(pnl) THEN 0 ELSE 1)
                 /\ ~due => /\ loc'[FirstTask].wins = l.wins
                            /\ loc'[FirstTask].losses = l.losses ]_vars

\* The loop has sold once above and once at the entry price, and has let a
\* sell signal pass with no position open
C27_Witness ==
    /\ pc[FirstTask] = "bt_loop"
    /\ loc[FirstTask].wins = 1
    /\ loc[FirstTask].losses = 1
    /\ \E k \in 1..Len(loc[FirstTask].trades) :
          /\ loc[FirstTask].trades[k].type = "sell"
          /\ loc[FirstTask].trades[k].price = loc[FirstTask].trades[k - 1].price
    /\ req[FirstTask].sig.signal = "sell"
    /\ loc[FirstTask].bars[Len(loc[FirstTask].bars)].action = "none"

\* cash + heldAmount * price[i], with the balances bar k of the run of task t
\* has left
ValueAfter(t, k) ==
    RAdd(loc[t].bars[k].capital,
         RMul(loc[t].bars[k].position, PriceAt(t, MinLookback + k - 1)))

Commits(t) == pc[t] = "commit" /\ pc'[t] = "close"

\* C29: a successful trade on one coin leaves the stored position (amount,
\* avg_entry_price, total_cost) of every other coin unchanged.
C29_OtherCoinsKept ==
    [][ \A t \in Tasks : Commits(t) =>
           \A c \in Coins \ {req[t].coin} :
               db'.portfolio[c] = db.portfolio[c] ]_vars

\* A trade has been committed on one coin while a position is held in another
C29_Witness ==
    \E t \in Tasks :
        /\ pc[t] = "close"
        /\ loc[t].result = "ok"
        /\ db.portfolio[req[t].coin] = loc[t].newrow
        /\ \E c \in Coins \ {req[t].coin} : RPos(db.portfolio[c].amount)

\* The step applies a trade of the float ledger
FloatApplies == nApplied' = nApplied + 1

\* C30: a sell that leaves the position open (remaining amount at or above
\* the dust threshold) does not change the position's avg_entry_price; only
\* buys change it, to the cost-weighted average of the old position and the
\* new purchase, and a buy into a closed (zeroed) position sets it to the
\* price of that buy.
C30_AvgEntryPrice ==
    [][ FloatApplies =>
           LET order == req'[FirstTask]
               qty == loc'[FirstTask].qty
               price == loc'[FirstTask].price
               old == db.portfolio[order.coin]
               new == db'.portfolio[order.coin]
           IN  /\ (order.side = "sell" /\ RLe(Dust, new.amount))
                     => new.avg_entry_price = old.avg_entry_price
               /\ (order.side = "buy" /\ RPos(old.amount))
                     => new.avg_entry_price
                          = RDiv(RAdd(old.total_cost, order.amount), RAdd(old.amount, qty))
               /\ (order.side = "buy" /\ old.amount = Zero)
                     => new.avg_entry_price = price ]_vars

BuysRecorded(trades) == Cardinality({k \in 1..Len(trades) : trades[k].type = "buy"})

\* C31: during a backtest at most one position is open at a time: the
\* recorded trades strictly alternate buy, sell, buy, ... starting with a buy,
\* no sell is recorded before a buy, and the number of buys exceeds the number
\* of sells by at most one.
C31_TradesAlternate ==
    pc[FirstTask] = "bt_loop" =>
        LET trades == loc[FirstTask].trades
        IN  /\ \A k \in 1..Len(trades) :
                  trades[k].type = (IF k % 2 = 1 THEN "buy" ELSE "sell")
            /\ BuysRecorded(trades) - SellsRecorded(trades) \in {0, 1}
            /\ RPos(loc[FirstTask].position)
                  <=> BuysRecorded(trades) = SellsRecorded(trades) + 1
            /\ loc[FirstTask].position = Zero
                  <=> BuysRecorded(trades) = SellsRecorded(trades)

\* The loop has passed its first bar without action and has then bought, sold
\* and bought again
C31_Witness ==
    /\ pc[FirstTask] = "bt_loop"
    /\ Len(loc[FirstTask].trades) = 3
    /\ loc[FirstTask].trades[1].bar > MinLookback
    /\ loc[FirstTask].bars[1].action = "none"
    /\ RPos(loc[FirstTask].position)

\* C32: during a backtest with positive initial capital and positive prices,
\* the simulated cash is strictly positive and the held amount is never
\* negative at every bar: every buy invests more than 16% and at most 24.25%
\* of the current cash.
C32_CashStaysPositive ==
    /\ [](pc[FirstTask] = "bt_loop" =>
             /\ RPos(loc[FirstTask].capital)
             /\ ~RLt(loc[FirstTask].position, Zero))
    /\ [][ (BarOf(FirstTask) /\ Recorded(FirstTask, "buy")) =>
             LET cash == loc[FirstTask].capital
                 invested == RSub(cash, loc'[FirstTask].capital)
             IN  /\ RLt(RMul(cash, Frac(16, 100)), invested)
                 /\ RLe(invested, RMul(cash, Frac(2425, 10000)))
                 /\ RLe(req'[FirstTask].sig.confidence, Frac(95, 100))
                 /\ RLt(Frac(4, 10), req'[FirstTask].sig.confidence) ]_vars

\* The loop has bought with confidence 0.95 (24.25% of the cash), has sold and
\* has bought again with what the sale left
C32_Witness ==
    /\ pc[FirstTask] = "bt_loop"
    /\ Len(loc[FirstTask].trades) = 3
    /\ loc[FirstTask].bars[1].capital = RMul(R(InitialCapital), Frac(7575, 10000))
    /\ RPos(loc[FirstTask].position)
    /\ RLt(loc[FirstTask].capital, R(InitialCapital))

\* ---------------------------------------------------------------------
\* bollinger_bands_signal, on floats
\* ---------------------------------------------------------------------
Floats == [n : Int, d : Nat]

\* np.sqrt(x) for x = n/d > 0. SqrtDen is the power of two w with
\* 2^(MantissaBits-1) <= sqrt(x) * w < 2^MantissaBits, SqrtFloor the largest
\* m in lo..hi with (m/w)^2 <= x, and the root is m/w or (m+1)/w, the nearer
SqrtDen[n \in Nat, d \in Nat, w \in Nat] ==
    IF Less[n, d, 2^(2 * MantissaBits - 2), w * w] THEN SqrtDen[n, d, 2 * w] ELSE w

SqrtFloor[n \in Nat, d \in Nat, w \in Nat, lo \in Nat, hi \in Nat] ==
    IF lo = hi THEN lo
    ELSE IF Less[n, d, ((lo + hi + 1) \div 2) * ((lo + hi + 1) \div 2), w * w]
         THEN SqrtFloor[n, d, w, lo, ((lo + hi + 1) \div 2) - 1]
         ELSE SqrtFloor[n, d, w, (lo + hi + 1) \div 2, hi]

SqrtRound[n \in Nat, d \in Nat, w \in Nat, m \in Nat] ==
    IF Less[n, d, (2 * m + 1) * (2 * m + 1), 4 * w * w] THEN Frac(m, w) ELSE Frac(m + 1, w)

FSqrt[n \in Nat, d \in Nat] ==
    IF n = 0 THEN Zero
    ELSE SqrtRound[n, d, SqrtDen[n, d, 1],
                   SqrtFloor[n, d, SqrtDen[n, d, 1], 2^(MantissaBits - 1), 2^MantissaBits - 1]]

\* a + b on floats, of two values
FSum[a \in Floats, b \in Floats] == FAdd(a, b)

\* np.cumsum(data)[k - 1]: the running sum, one addition after the other
Cumsum[data \in Seq(Floats), k \in Nat] ==
    IF k = 0 THEN Zero ELSE FSum[Cumsum[data, k - 1], data[k]]

\* _sma(data, period)[-1] for len(data) > period
FloatSma(data, period) ==
    FDiv(FSub(Cumsum[data, Len(data)], Cumsum[data, Len(data) - period]), R(period))

\* np.add.reduce(a) for 8 <= len(a) < 128: eight running sums over the
\* blocks of eight, added in pairs, and the rest one after the other
Lane[a \in Seq(Floats), j \in Nat, blocks \in Nat] ==
    IF blocks = 0 THEN a[j] ELSE FSum[Lane[a, j, blocks - 1], a[8 * blocks + j]]

Rest[a \in Seq(Floats), start \in Floats, k \in Nat] ==
    IF k <= 8 * (Len(a) \div 8) THEN start ELSE FSum[Rest[a, start, k - 1], a[k]]

Reduce(a) ==
    IF Len(a) < 8 THEN Cumsum[a, Len(a)]
    ELSE Rest[a, FSum[FSum[FSum[Lane[a, 1, (Len(a) \div 8) - 1], Lane[a, 2, (Len(a) \div 8) - 1]],
                           FSum[Lane[a, 3, (Len(a) \div 8) - 1], Lane[a, 4, (Len(a) \div 8) - 1]]],
                      FSum[FSum[Lane[a, 5, (Len(a) \div 8) - 1], Lane[a, 6, (Len(a) \div 8) - 1]],
                           FSum[Lane[a, 7, (Len(a) \div 8) - 1], Lane[a, 8, (Len(a) \div 8) - 1]]]],
              Len(a)]

Mean(a) == FDiv(Reduce(a), R(Len(a)))

Deviations[a \in Seq(Floats), mean \in Floats] ==
    [k \in 1..Len(a) |-> FMul(FSub(a[k], mean), FSub(a[k], mean))]

\* np.std(a): the root of the mean of the squared deviations from the mean
Std(a) ==
    FSqrt[Mean(Deviations[a, Mean(a)]).n, Mean(Deviations[a, Mean(a)]).d]

Last(data, period) == SubSeq(data, Len(data) - period + 1, Len(data))

\* confidence = min(0.9, 0.5 + pct * 0.05), rounded to two decimals
BandConfidence[pct \in Floats] ==
    Round2(RMin(Float(Frac(9, 10)), FAdd(Frac(1, 2), FMul(pct, Float(Frac(5, 100))))))

\* The branches of bollinger_bands_signal once the bands are computed
BandSignal[current_price \in Floats, current_lower \in Floats, current_upper \in Floats, band_width \in Floats] ==
    IF RLe(current_price, current_lower)
    THEN [signal |-> "buy",
          confidence |-> BandConfidence[
              IF RPos(band_width)
              THEN FMul(FDiv(FSub(current_lower, current_price), band_width), R(100))
              ELSE Zero]]
    ELSE IF RLe(current_upper, current_price)
    THEN [signal |-> "sell",
          confidence |-> BandConfidence[
              IF RPos(band_width)
              THEN FMul(FDiv(FSub(current_price, current_upper), band_width), R(100))
              ELSE Zero]]
    ELSE [signal |-> "hold", confidence |-> Frac(3, 10)]

Bands[current_price \in Floats, middle \in Floats, spread \in Floats] ==
    BandSignal[current_price, FSub(middle, spread), FAdd(middle, spread),
               FSub(FAdd(middle, spread), FSub(middle, spread))]

bollinger_bands_signal(prices, period, std_dev) ==
    IF Len(prices) < period + 2 THEN [signal |-> "hold", confidence |-> Zero]
    ELSE Bands[prices[Len(prices)], FloatSma(prices, period),
               FMul(std_dev, Std(Last(prices, period)))]

BandPeriod == 20

BandStdDev == R(2)

\* Prices (floats), the lengths of what comes before the trailing period, and
\* the series: a lead, then the trailing period at one price up to its last
\* bar
BandPrices == {2048, 2049, 3001, 4095}

MinLead == 2
MaxLead == 3

BandSeries ==
    UNION {{lead \o [k \in 1..BandPeriod |-> IF k < BandPeriod THEN R(x) ELSE R(y)] :
               lead \in [1..n -> {R(q) : q \in BandPrices}], x \in BandPrices, y \in BandPrices} :
           n \in MinLead..MaxLead}

\* get_signal("bollinger_bands", prices) on one series
BollingerCall ==
    /\ pc[FirstTask] = "idle"
    /\ \E prices \in BandSeries :
          /\ req' = [req EXCEPT ![FirstTask] = [prices |-> prices]]
          /\ res' = [res EXCEPT ![FirstTask] =
                        bollinger_bands_signal(prices, BandPeriod, BandStdDev)]
    /\ pc' = [pc EXCEPT ![FirstTask] = "done"]
    /\ UNCHANGED <<loc, locks, store, market, calls, arrived, nApplied, touched>>

BollingerSpec == FloatInit /\ [][BollingerCall]_vars

\* The trailing period of the series of the call is at one price
FlatBand ==
    /\ pc[FirstTask] = "done"
    /\ \A k \in 1..BandPeriod :
          Last(req[FirstTask].prices, BandPeriod)[k] = req[FirstTask].prices[Len(req[FirstTask].prices)]

\* C33: when the trailing period prices are all equal, bollinger_bands_signal
\* returns buy with confidence 0.5.
C33_FlatBandBuys ==
    FlatBand => /\ res[FirstTask].signal = "buy"
                /\ res[FirstTask].confidence = Frac(1, 2)

====
